---------------------------- MODULE Spec2Model ----------------------------
(***************************************************************************)
(* Tolkien Gateway knowledge-graph pipeline: the infobox parser (Step 1),  *)
(* the RDF generator (Step 2) and the METW/CSV enricher (Step 4).           *)
(*                                                                         *)
(* Python strings are sequences of one-character strings, so that lower(), *)
(* strip(), replace(), split() and difflib's ratio are computed, not        *)
(* assumed.  Python's None / a missing dict key is the empty tuple <<>>,    *)
(* and a present value x is <<x>> (an "optional").  RDF terms are records  *)
(* of one shape; the graph is a set of triples <<s, p, o>>.                *)
(***************************************************************************)
EXTENDS Integers, Sequences, FiniteSets, TLC

VARIABLES
    pc,                  \* position of the run: which stage comes next
    graph,               \* self.graph (Step 2 and Step 4): a set of triples
    entity_index,        \* Step 4 self.entity_index: ordered <<key, uri>> dict
    characters,          \* Step 4 enrich_with_csv: the rows read from the CSV
    i,                   \* loop index of the batch loop in progress
    stats,               \* the statistics dict of the stage in progress
    last,                \* the last handler call: its inputs and the graph before
    entities,            \* Step 2 generate_from_file: the entities to process
    call,                \* a pure function under check: its inputs and result
    pages,               \* Step 1 parse_all_pages: pages_list
    normalized_entities, \* Step 1 parse_all_pages: the records produced so far
    hash_seed,           \* the string hash seed of the Python process of this run
    previous,            \* Step 1: the records of the run before this one, if any
    cards,               \* Step 4 enrich_with_metw: the cards read from the file
    metw_stats,          \* Step 4 self.stats['metw']
    property_usage,      \* Step 3 self.property_usage: (type, field) -> count
    property_datatypes,  \* Step 3 self.property_datatypes: field -> datatypes
    shape_graph          \* Step 3 self.graph: the shapes written so far

vars == <<pc, graph, entity_index, characters, i, stats, last, entities, call,
          pages, normalized_entities, hash_seed, previous, cards, metw_stats,
          property_usage, property_datatypes, shape_graph>>

\* the variables of Step 1 alone
parseVars == <<pages, normalized_entities, hash_seed, previous>>

\* the variables of the card enrichment alone
metwVars == <<cards, metw_stats>>

\* the variables of the shape generator alone
shapeVars == <<property_usage, property_datatypes, shape_graph>>

-----------------------------------------------------------------------------
(* Bounds of the model                                                     *)

\* rows in the CSV file of one enrichment run
MaxRows == 2

\* entities in the batch handed to the RDF generator
MaxEntities == 2

\* spaces put before and after a value handed to create_typed_literal
MaxPad == 1

\* named resources in the graph an index is built from, for find_best_match
MaxIndexNames == 2

\* pages in the input file of one parsing run
MaxPages == 2
MaxCards == 2
MaxPipelineRows == 1
\* rows in the CSV file of a run that is repeated
MaxRerunRows == 2
\* Step 3: records beyond a cutoff, and records of a second kind, in a corpus
MaxOver == 1
MaxOther == 1

-----------------------------------------------------------------------------
(* Python str operations on sequences of characters                        *)

None == <<>>

Some(x) == <<x>>

UpperAlpha == <<"A","B","C","D","E","F","G","H","I","J","K","L","M","N","O","P","Q","R","S","T","U","V","W","X","Y","Z">>

LowerAlpha == <<"a","b","c","d","e","f","g","h","i","j","k","l","m","n","o","p","q","r","s","t","u","v","w","x","y","z">>

Digits == <<"0","1","2","3","4","5","6","7","8","9">>

\* str.lower() on one character
LowerChar(c) ==
    IF \E n \in 1..Len(UpperAlpha) : UpperAlpha[n] = c
    THEN LowerAlpha[CHOOSE n \in 1..Len(UpperAlpha) : UpperAlpha[n] = c]
    ELSE c

\* str.upper() on one character (str.capitalize uses it for the first one)
UpperChar(c) ==
    IF \E n \in 1..Len(LowerAlpha) : LowerAlpha[n] = c
    THEN UpperAlpha[CHOOSE n \in 1..Len(LowerAlpha) : LowerAlpha[n] = c]
    ELSE c

Lower(s) == [n \in 1..Len(s) |-> LowerChar(s[n])]

IsSpace(c) == c = " "

\* str.strip(): leading and trailing whitespace removed
Strip(s) ==
    LET keep == {n \in 1..Len(s) : ~IsSpace(s[n])}
    IN  IF keep = {} THEN <<>>
        ELSE LET lo == CHOOSE n \in keep : \A m \in keep : n <= m
                 hi == CHOOSE n \in keep : \A m \in keep : n >= m
             IN  SubSeq(s, lo, hi)

\* str.replace(c, '') for a single character c
RemoveChar(s, c) == SelectSeq(s, LAMBDA x : x # c)

\* str.replace(c, d) for single characters c and d
ReplaceChar(s, c, d) == [n \in 1..Len(s) |-> IF s[n] = c THEN d ELSE s[n]]

\* sub in s
Contains(s, sub) ==
    \E n \in 0..(Len(s) - Len(sub)) : SubSeq(s, n + 1, n + Len(sub)) = sub

\* s.startswith(pre)
StartsWith(s, pre) == Len(s) >= Len(pre) /\ SubSeq(s, 1, Len(pre)) = pre

RECURSIVE Split(_, _)
\* s.split(c) for a single character c: always at least one token
Split(s, c) ==
    IF \A n \in 1..Len(s) : s[n] # c THEN <<s>>
    ELSE LET p == CHOOSE n \in 1..Len(s) :
                      s[n] = c /\ \A m \in 1..(n - 1) : s[m] # c
         IN  <<SubSeq(s, 1, p - 1)>> \o Split(SubSeq(s, p + 1, Len(s)), c)

RECURSIVE Concat(_)
\* ''.join(parts)
Concat(parts) ==
    IF parts = <<>> THEN <<>> ELSE Head(parts) \o Concat(Tail(parts))

-----------------------------------------------------------------------------
(* RDF terms (rdflib URIRef and Literal) and graph access                  *)

Uri(ns, local) ==
    [k |-> "uri", ns |-> ns, v |-> local, lang |-> "", dt |-> "", n |-> <<0, 1>>]

\* Literal(value, lang=lang); lang "" is a plain literal
Lit(value, lang) ==
    [k |-> "lit", ns |-> "", v |-> value, lang |-> lang, dt |-> "", n |-> <<0, 1>>]

\* Literal(number, datatype=dt): the number is the fraction num/den
NumLit(num, den, dt) ==
    [k |-> "lit", ns |-> "", v |-> <<>>, lang |-> "", dt |-> dt, n |-> <<num, den>>]

IsLiteral(o) == o.k = "lit"

\* a graph that holds the new triples alone
GraphReplace(g, triples) == triples

\* Graph.add of each of the triples: the graph is a set
GraphAdd(g, triples) == g \cup triples

\* list(graph.objects(s, p))
Objects(g, s, p) == {t[3] : t \in {u \in g : u[1] = s /\ u[2] = p}}

-----------------------------------------------------------------------------
(* Step 1: wikitext as mwparserfromhell parses it                          *)
(*                                                                         *)
(* A wikitext is the sequence of the nodes the parser finds in it: text,   *)
(* comment, wikilink ([[s]] or [[s|text]]) and template ({{s|name=value}},  *)
(* each value a wikitext again).  The text of a node holds no markup.       *)

TextNode(s) == [t |-> "text", s |-> s, text |-> None, params |-> <<>>]

CommentNode(s) == [t |-> "comment", s |-> s, text |-> None, params |-> <<>>]

\* text is an optional string: the part after the pipe
WikilinkNode(title, text) == [t |-> "wikilink", s |-> title, text |-> text, params |-> <<>>]

\* params is a sequence of [name, value], value a wikitext
TemplateNode(name, params) == [t |-> "template", s |-> name, text |-> None, params |-> params]

TemplateParam(name, value) == [name |-> name, value |-> value]

\* a value that is no string but the JSON number of the digits s, where a
\* wikitext is expected
NumberValue(s) == <<[t |-> "number", s |-> s, text |-> None, params |-> <<>>]>>

IsNumberValue(v) == Len(v) = 1 /\ v[1].t = "number"

RECURSIVE Render(_)
\* str(wikicode): the markup the nodes were parsed from
Render(wt) ==
    IF wt = <<>> THEN <<>>
    ELSE LET node == Head(wt)
             here ==
                 CASE node.t = "text" -> node.s
                   [] node.t = "comment" -> <<"<","!","-","-">> \o node.s \o <<"-","-",">">>
                   [] node.t = "wikilink" ->
                        <<"[","[">> \o node.s
                              \o (IF node.text = None THEN <<>> ELSE <<"|">> \o node.text[1])
                              \o <<"]","]">>
                   [] node.t = "template" ->
                        <<"{","{">> \o node.s
                              \o Concat([n \in 1..Len(node.params) |->
                                            <<"|">> \o node.params[n].name \o <<"=">>
                                                 \o Render(node.params[n].value)])
                              \o <<"}","}">>
         IN  here \o Render(Tail(wt))

RECURSIVE Nodes(_)
\* the nodes of a wikitext in document order, those inside template
\* parameters included: what filter_templates and filter_wikilinks walk
Nodes(wt) ==
    IF wt = <<>> THEN <<>>
    ELSE LET node == Head(wt)
         IN  <<node>>
             \o Concat([n \in 1..Len(node.params) |-> Nodes(node.params[n].value)])
             \o Nodes(Tail(wt))

RECURSIVE strip_code(_)
\* Wikicode.strip_code(): text stays, a wikilink leaves its text or else its
\* title, templates and comments leave nothing.  (No parameter value of the
\* inputs below holds a link to a file or an image.)
strip_code(wt) ==
    IF wt = <<>> THEN <<>>
    ELSE LET node == Head(wt)
             here ==
                 CASE node.t = "text" -> node.s
                   [] node.t = "wikilink" -> IF node.text = None THEN node.s ELSE node.text[1]
                   [] OTHER -> <<>>
         IN  here \o strip_code(Tail(wt))

RECURSIVE CollapseSpaces(_)
\* re.sub(r'\s+', ' ', s)
CollapseSpaces(s) ==
    IF Len(s) < 2 THEN s
    ELSE IF IsSpace(s[1]) /\ IsSpace(s[2]) THEN CollapseSpaces(Tail(s))
    ELSE <<s[1]>> \o CollapseSpaces(Tail(s))

\* clean_wikitext_value; the <ref> substitutions find nothing to remove in
\* stripped text, which holds no tag
clean_wikitext_value(value) == Strip(CollapseSpaces(strip_code(value)))

\* the end of the longest run of characters outside stop that starts at p
RunEnd(s, p, stop) ==
    LET ends == {q \in p..(Len(s) + 1) :
                    /\ \A m \in p..(q - 1) : s[m] \notin stop
                    /\ q = Len(s) + 1 \/ s[q] \in stop}
    IN  CHOOSE q \in ends : TRUE

At(s, p, sub) == p + Len(sub) - 1 <= Len(s) /\ SubSeq(s, p, p + Len(sub) - 1) = sub

\* a match of \[\[([^\]|]+)(?:\|[^\]]+)?\]\] at p: <<group 1, end>>, or <<>>
LinkMatch(s, p) ==
    IF ~At(s, p, <<"[","[">>) THEN <<>>
    ELSE LET q == RunEnd(s, p + 2, {"]", "|"})
             r == IF q <= Len(s) /\ s[q] = "|" THEN RunEnd(s, q + 1, {"]"}) ELSE q
         IN  IF q = p + 2 THEN <<>>
             ELSE IF At(s, q, <<"]","]">>) THEN <<SubSeq(s, p + 2, q - 1), q + 2>>
             ELSE IF q <= Len(s) /\ s[q] = "|" /\ r > q + 1 /\ At(s, r, <<"]","]">>)
             THEN <<SubSeq(s, p + 2, q - 1), r + 2>>
             ELSE <<>>

RECURSIVE FindLinks(_, _)
\* re.findall(pattern, s) from position p on
FindLinks(s, p) ==
    IF p > Len(s) THEN <<>>
    ELSE LET m == LinkMatch(s, p)
         IN  IF m = <<>> THEN FindLinks(s, p + 1)
             ELSE <<m[1]>> \o FindLinks(s, m[2])

\* ':' in link and not link.startswith('http')
IsNamespaced(link) == Contains(link, <<":">>) /\ ~StartsWith(link, <<"h","t","t","p">>)

\* text is the raw markup of one parameter value
extract_internal_links(text) ==
    LET matches == FindLinks(text, 1)
        links == [n \in 1..Len(matches) |-> Strip(matches[n])]
    IN  SelectSeq(links, LAMBDA link : ~IsNamespaced(link))

\* self.key_normalizations
key_normalizations ==
    << <<<<"b","i","r","t","h","_","d","a","t","e">>, <<"b","i","r","t","h","D","a","t","e">>>>, <<<<"b","i","r","t","h","_","p","l","a","c","e">>, <<"b","i","r","t","h","P","l","a","c","e">>>>,
       <<<<"d","e","a","t","h","_","d","a","t","e">>, <<"d","e","a","t","h","D","a","t","e">>>>, <<<<"d","e","a","t","h","_","p","l","a","c","e">>, <<"d","e","a","t","h","P","l","a","c","e">>>>,
       <<<<"r","e","a","l","_","n","a","m","e">>, <<"r","e","a","l","N","a","m","e">>>>, <<<<"o","t","h","e","r","_","n","a","m","e","s">>, <<"o","t","h","e","r","N","a","m","e","s">>>>,
       <<<<"p","r","o","n","u","n","c","i","a","t","i","o","n">>, <<"p","r","o","n","u","n","c","i","a","t","i","o","n">>>>, <<<<"s","a","i","l","_","d","a","t","e">>, <<"s","a","i","l","D","a","t","e">>>>,
       <<<<"s","a","i","l","_","s","h","i","p">>, <<"s","a","i","l","S","h","i","p">>>>, <<<<"l","i","f","e","s","p","a","n">>, <<"l","i","f","e","s","p","a","n">>>>,
       <<<<"r","e","a","l","m">>, <<"r","e","a","l","m">>>>, <<<<"t","i","t","l","e">>, <<"t","i","t","l","e">>>>, <<<<"t","i","t","l","e","s">>, <<"t","i","t","l","e","s">>>>,
       <<<<"p","o","s","i","t","i","o","n">>, <<"p","o","s","i","t","i","o","n">>>>, <<<<"a","f","f","i","l","i","a","t","i","o","n">>, <<"a","f","f","i","l","i","a","t","i","o","n">>>>,
       <<<<"l","a","n","g","u","a","g","e">>, <<"l","a","n","g","u","a","g","e">>>>, <<<<"h","e","i","g","h","t">>, <<"h","e","i","g","h","t">>>>,
       <<<<"h","a","i","r">>, <<"h","a","i","r">>>>, <<<<"e","y","e","s">>, <<"e","y","e","s">>>>, <<<<"c","l","o","t","h","i","n","g">>, <<"c","l","o","t","h","i","n","g">>>>,
       <<<<"w","e","a","p","o","n","s">>, <<"w","e","a","p","o","n","s">>>>, <<<<"s","t","e","e","d">>, <<"s","t","e","e","d">>>>, <<<<"g","a","l","l","e","r","y">>, <<"g","a","l","l","e","r","y">>>>,
       <<<<"a","c","t","o","r">>, <<"a","c","t","o","r">>>>, <<<<"v","o","i","c","e">>, <<"v","o","i","c","e">>>>, <<<<"c","u","l","t","u","r","e">>, <<"c","u","l","t","u","r","e">>>>,
       <<<<"g","e","n","d","e","r">>, <<"g","e","n","d","e","r">>>>, <<<<"r","a","c","e">>, <<"r","a","c","e">>>>, <<<<"s","p","o","u","s","e">>, <<"s","p","o","u","s","e">>>>,
       <<<<"c","h","i","l","d","r","e","n">>, <<"c","h","i","l","d","r","e","n">>>>, <<<<"p","a","r","e","n","t","a","g","e">>, <<"p","a","r","e","n","t","a","g","e">>>>,
       <<<<"s","i","b","l","i","n","g","s">>, <<"s","i","b","l","i","n","g","s">>>>,
       <<<<"p","h","y","s","i","c","a","l","_","d","e","s","c","r","i","p","t","i","o","n">>, <<"p","h","y","s","i","c","a","l","D","e","s","c","r","i","p","t","i","o","n">>>>,
       <<<<"n","o","t","a","b","l","e","_","f","o","r">>, <<"n","o","t","a","b","l","e","F","o","r">>>> >>

\* str.capitalize(): the first character upper case, the rest lower case
Capitalize(w) == [n \in 1..Len(w) |-> IF n = 1 THEN UpperChar(w[n]) ELSE LowerChar(w[n])]

normalize_key(raw_key) ==
    LET key == ReplaceChar(Lower(Strip(raw_key)), " ", "_")
        parts == Split(key, "_")
    IN  IF \E n \in 1..Len(key_normalizations) : key_normalizations[n][1] = key
        THEN key_normalizations[CHOOSE n \in 1..Len(key_normalizations) :
                                    key_normalizations[n][1] = key][2]
        ELSE IF Len(parts) > 1
        THEN parts[1] \o Concat([n \in 1..(Len(parts) - 1) |-> Capitalize(parts[n + 1])])
        ELSE key

RECURSIVE RemoveSub(_, _)
\* s.replace(sub, '') for a non-empty sub
RemoveSub(s, sub) ==
    IF Len(s) < Len(sub) THEN s
    ELSE IF SubSeq(s, 1, Len(sub)) = sub THEN RemoveSub(SubSeq(s, Len(sub) + 1, Len(s)), sub)
    ELSE <<s[1]>> \o RemoveSub(Tail(s), sub)

\* one entry of an infobox's 'parameters' dict, under its key
Param(key, raw, cleaned, internal_links) ==
    [key |-> key, raw |-> raw, cleaned |-> cleaned, internal_links |-> internal_links]

\* params[entry.key] = entry: a new key is appended, a known key keeps its place
ParamPut(params, entry) ==
    IF \E n \in 1..Len(params) : params[n].key = entry.key
    THEN [n \in 1..Len(params) |-> IF params[n].key = entry.key THEN entry ELSE params[n]]
    ELSE Append(params, entry)

RECURSIVE InfoboxParams(_, _)
\* the loop of parse_infobox_template over infobox_template.params
InfoboxParams(tparams, params) ==
    IF tparams = <<>> THEN params
    ELSE LET value == Strip(Render(Head(tparams).value))
             entry == Param(normalize_key(Strip(Head(tparams).name)), value,
                            clean_wikitext_value(Head(tparams).value),
                            extract_internal_links(value))
         IN  IF value = <<>>
             THEN InfoboxParams(Tail(tparams), params)
             ELSE InfoboxParams(Tail(tparams), ParamPut(params, entry))

IsInfobox(node) ==
    node.t = "template" /\ StartsWith(Lower(Strip(node.s)), <<"i","n","f","o","b","o","x">>)

\* None, or the first infobox template as template_name, template_type and
\* parameters
parse_infobox_template(wikitext) ==
    LET nodes == Nodes(wikitext)
        found == {n \in 1..Len(nodes) : IsInfobox(nodes[n])}
    IN  IF found = {} THEN None
        ELSE LET infobox_template == nodes[CHOOSE n \in found : \A m \in found : n <= m]
                 template_name == Strip(infobox_template.s)
             IN  Some([template_name |-> template_name,
                       template_type |-> Strip(RemoveSub(template_name, <<"I","n","f","o","b","o","x"," ">>)),
                       parameters |-> InfoboxParams(infobox_template.params, <<>>)])

\* every character the model's link titles are written with, in code order
CharOrder == <<" ","-",".","0","1","2","3","4","5","6","7","8","9",":","A","B","C","D","E","F","G","H","I","J","K","L","M","N","O","P","Q","R","S","T","U","V","W","X","Y","Z","_","a","b","c","d","e","f","g","h","i","j","k","l","m","n","o","p","q","r","s","t","u","v","w","x","y","z">>

CharRank(c) == CHOOSE n \in 1..Len(CharOrder) : CharOrder[n] = c

RECURSIVE StrLess(_, _)
StrLess(a, b) ==
    IF b = <<>> THEN FALSE
    ELSE IF a = <<>> THEN TRUE
    ELSE IF a[1] # b[1] THEN CharRank(a[1]) < CharRank(b[1])
    ELSE StrLess(Tail(a), Tail(b))

\* list(set(links)): the order is that of the strings' hashes, which the
\* process's hash seed decides; two seeds that order every set oppositely
ListOfSet(S, seed) ==
    LET asc == CHOOSE q \in [1..Cardinality(S) -> S] :
                   \A x, y \in 1..Cardinality(S) : x < y => StrLess(q[x], q[y])
    IN  IF seed = 0 THEN asc
        ELSE [n \in 1..Cardinality(S) |-> asc[Cardinality(S) + 1 - n]]

extract_all_internal_links(wikitext, seed) ==
    LET nodes == Nodes(wikitext)
        titles == {Strip(nodes[n].s) : n \in {m \in 1..Len(nodes) : nodes[m].t = "wikilink"}}
    IN  ListOfSet({title \in titles : ~IsNamespaced(title)}, seed)

-----------------------------------------------------------------------------
(* Step 1: parse_page and parse_all_pages                                  *)
(*                                                                         *)
(* A page is the dict of one document.  Its keys title, wikitext, parse,   *)
(* text, pageid and json are optionals; parse holds title, wikitext and     *)
(* pageid; json holds a dict of the same keys as the page, json excepted.   *)
(* A wikitext value stands for the markup string, whether the dict holds   *)
(* it as such or under '*'.  The inputs carry no categories.                *)

NoParseObj == [title |-> None, wikitext |-> None, pageid |-> None]

\* the dict to read the markup from: page_data['json'] if there is one
PageBody(page_data) == IF page_data.json # None THEN page_data.json[1] ELSE page_data

\* page_data.get('parse', {})
ParseObj(body) == IF body.parse # None THEN body.parse[1] ELSE NoParseObj

\* the title parse_page settles on
page_title(page_data) ==
    LET body == PageBody(page_data)
    IN  IF page_data.title # None /\ page_data.title[1] # <<"U","n","k","n","o","w","n">>
        THEN page_data.title[1]
        ELSE IF body.title # None THEN body.title[1]
        ELSE IF ParseObj(body).title # None THEN ParseObj(body).title[1]
        ELSE <<"U","n","k","n","o","w","n">>

\* the markup parse_page finds, None if it finds none: the if/elif chain
\* over 'wikitext', 'parse' and 'text'
page_wikitext(page_data) ==
    LET body == PageBody(page_data)
    IN  IF body.wikitext # None THEN body.wikitext
        ELSE IF body.parse # None THEN body.parse[1].wikitext
        ELSE IF body.text # None THEN body.text
        ELSE None

\* 'not wikitext': nothing found, an empty string or the number 0
NoWikitext(wikitext) ==
    \/ wikitext = None
    \/ IsNumberValue(wikitext[1]) /\ wikitext[1][1].s = <<"0">>
    \/ ~IsNumberValue(wikitext[1]) /\ Render(wikitext[1]) = <<>>

\* parse_page raises: both parsers swallow their exceptions on a value that
\* is no string, and len(wikitext) then raises TypeError
parse_page_raises(page_data) ==
    LET wikitext == page_wikitext(page_data)
    IN  ~NoWikitext(wikitext) /\ IsNumberValue(wikitext[1])

\* None, or the entity of the page, when parse_page does not raise; seed is
\* the process's string hash seed
parse_page(page_data, seed) ==
    LET wikitext == page_wikitext(page_data)
    IN  IF NoWikitext(wikitext) \/ IsNumberValue(wikitext[1]) THEN None
        ELSE LET infobox == parse_infobox_template(wikitext[1])
                 body == PageBody(page_data)
             IN  Some([entity_id |-> page_title(page_data),
                       page_id |-> IF body.pageid # None THEN body.pageid
                                   ELSE ParseObj(body).pageid,
                       title |-> page_title(page_data),
                       type |-> IF infobox = None THEN None
                                ELSE Some(infobox[1].template_type),
                       infobox |-> IF infobox = None THEN None
                                   ELSE Some([template_name |-> infobox[1].template_name,
                                              parameters |-> infobox[1].parameters]),
                       internal_links |-> extract_all_internal_links(wikitext[1], seed),
                       categories |-> <<>>,
                       raw_wikitext_length |-> Len(Render(wikitext[1]))])

\* the stats dict parse_all_pages starts from
InitParseStats(total) ==
    [stage |-> "parse",
     total_pages |-> total,
     successful |-> 0,
     failed |-> 0,
     with_infobox |-> 0,
     without_infobox |-> 0,
     infobox_types |-> <<>>,
     failed_pages |-> <<>>]

\* stats['infobox_types'][type] += 1 on a defaultdict(int), kept as an
\* ordered sequence of <<type, count>>
CountType(types, type) ==
    IF \E n \in 1..Len(types) : types[n][1] = type
    THEN [n \in 1..Len(types) |->
             IF types[n][1] = type THEN <<type, types[n][2] + 1>> ELSE types[n]]
    ELSE Append(types, <<type, 1>>)

\* page_data.get('title', f'Unknown_{i}'), i the loop index from 0
LogTitle(page_data, index) ==
    IF page_data.title # None THEN page_data.title[1]
    ELSE <<"U","n","k","n","o","w","n","_">> \o <<Digits[index + 1]>>

\* the statistics after one page, with a page that is not counted as failed
\* when parse_page returns None
CountPageSkipsFailure(st, entity, title) ==
    IF entity = None THEN st
    ELSE IF entity[1].infobox # None
    THEN [st EXCEPT !.successful = @ + 1,
                    !.with_infobox = @ + 1,
                    !.infobox_types = CountType(@, entity[1].type[1])]
    ELSE [st EXCEPT !.successful = @ + 1, !.without_infobox = @ + 1]

\* the statistics after one page, entity being what parse_page returned, or
\* None when it raised
CountPage(st, entity, title) ==
    IF entity = None
    THEN [st EXCEPT !.failed = @ + 1, !.failed_pages = Append(@, title)]
    ELSE IF entity[1].infobox # None
    THEN [st EXCEPT !.successful = @ + 1,
                    !.with_infobox = @ + 1,
                    !.infobox_types = CountType(@, entity[1].type[1])]
    ELSE [st EXCEPT !.successful = @ + 1, !.without_infobox = @ + 1]

-----------------------------------------------------------------------------
(* Step 2: TolkienRDFGenerator                                             *)

SchemaName == Uri("SCHEMA", <<"n","a","m","e">>)

SchemaGender == Uri("SCHEMA", <<"g","e","n","d","e","r">>)

SchemaBirthDate == Uri("SCHEMA", <<"b","i","r","t","h","D","a","t","e">>)

SchemaDeathDate == Uri("SCHEMA", <<"d","e","a","t","h","D","a","t","e">>)

SchemaHeight == Uri("SCHEMA", <<"h","e","i","g","h","t">>)

SchemaSpouse == Uri("SCHEMA", <<"s","p","o","u","s","e">>)

SchemaThing == Uri("SCHEMA", <<"T","h","i","n","g">>)

PropRace == Uri("PROP", <<"r","a","c","e">>)

PropHairColor == Uri("PROP", <<"h","a","i","r","C","o","l","o","r">>)

RdfType == Uri("RDF", <<"t","y","p","e">>)

RdfsLabel == Uri("RDFS", <<"l","a","b","e","l">>)

\* self.property_mappings, in its declared order
property_mappings ==
    << <<<<"n","a","m","e">>, SchemaName>>,
       <<<<"b","i","r","t","h","D","a","t","e">>, SchemaBirthDate>>,
       <<<<"b","i","r","t","h","P","l","a","c","e">>, Uri("SCHEMA", <<"b","i","r","t","h","P","l","a","c","e">>)>>,
       <<<<"d","e","a","t","h","D","a","t","e">>, SchemaDeathDate>>,
       <<<<"d","e","a","t","h","P","l","a","c","e">>, Uri("SCHEMA", <<"d","e","a","t","h","P","l","a","c","e">>)>>,
       <<<<"g","e","n","d","e","r">>, SchemaGender>>,
       <<<<"s","p","o","u","s","e">>, SchemaSpouse>>,
       <<<<"c","h","i","l","d","r","e","n">>, Uri("SCHEMA", <<"c","h","i","l","d","r","e","n">>)>>,
       <<<<"p","a","r","e","n","t">>, Uri("SCHEMA", <<"p","a","r","e","n","t">>)>>,
       <<<<"p","a","r","e","n","t","a","g","e">>, Uri("SCHEMA", <<"p","a","r","e","n","t">>)>>,
       <<<<"s","i","b","l","i","n","g","s">>, Uri("SCHEMA", <<"s","i","b","l","i","n","g">>)>>,
       <<<<"o","c","c","u","p","a","t","i","o","n">>, Uri("SCHEMA", <<"h","a","s","O","c","c","u","p","a","t","i","o","n">>)>>,
       <<<<"a","f","f","i","l","i","a","t","i","o","n">>, Uri("SCHEMA", <<"a","f","f","i","l","i","a","t","i","o","n">>)>>,
       <<<<"i","m","a","g","e">>, Uri("SCHEMA", <<"i","m","a","g","e">>)>>,
       <<<<"d","e","s","c","r","i","p","t","i","o","n">>, Uri("SCHEMA", <<"d","e","s","c","r","i","p","t","i","o","n">>)>>,
       <<<<"h","e","i","g","h","t">>, SchemaHeight>>,
       <<<<"n","a","t","i","o","n","a","l","i","t","y">>, Uri("SCHEMA", <<"n","a","t","i","o","n","a","l","i","t","y">>)>>,
       <<<<"r","a","c","e">>, PropRace>>,
       <<<<"t","i","t","l","e","s">>, Uri("PROP", <<"t","i","t","l","e">>)>>,
       <<<<"p","o","s","i","t","i","o","n">>, Uri("PROP", <<"p","o","s","i","t","i","o","n">>)>>,
       <<<<"l","o","c","a","t","i","o","n">>, Uri("PROP", <<"l","o","c","a","t","i","o","n">>)>>,
       <<<<"l","a","n","g","u","a","g","e">>, Uri("PROP", <<"l","a","n","g","u","a","g","e">>)>>,
       <<<<"w","e","a","p","o","n">>, Uri("PROP", <<"w","e","a","p","o","n">>)>>,
       <<<<"w","e","a","p","o","n","s">>, Uri("PROP", <<"w","e","a","p","o","n">>)>>,
       <<<<"h","a","i","r">>, PropHairColor>>,
       <<<<"e","y","e","s">>, Uri("PROP", <<"e","y","e","C","o","l","o","r">>)>>,
       <<<<"c","l","o","t","h","i","n","g">>, Uri("PROP", <<"c","l","o","t","h","i","n","g">>)>>,
       <<<<"h","o","u","s","e">>, Uri("PROP", <<"h","o","u","s","e">>)>>,
       <<<<"h","e","r","i","t","a","g","e">>, Uri("PROP", <<"h","e","r","i","t","a","g","e">>)>>,
       <<<<"o","t","h","e","r","N","a","m","e","s">>, Uri("SCHEMA", <<"a","l","t","e","r","n","a","t","e","N","a","m","e">>)>>,
       <<<<"r","e","a","l","N","a","m","e">>, Uri("SCHEMA", <<"a","l","t","e","r","n","a","t","e","N","a","m","e">>)>> >>

\* self.property_mappings.get(field, self.PROP[field])
PropertyFor(field) ==
    IF \E n \in 1..Len(property_mappings) : property_mappings[n][1] = field
    THEN property_mappings[CHOOSE n \in 1..Len(property_mappings) :
                               property_mappings[n][1] = field][2]
    ELSE Uri("PROP", field)

\* uri_type is "resource" or "page" at every call site
create_uri(name, uri_type) ==
    LET clean_name == ReplaceChar(name, " ", "_")
    IN  IF uri_type = "resource" THEN Uri("RESOURCE", clean_name)
        ELSE IF uri_type = "page" THEN Uri("PAGE", clean_name)
        ELSE Uri("NS", clean_name)

\* type_mappings of determine_class, in its declared order
type_mappings ==
    << <<<<"c","h","a","r","a","c","t","e","r">>, Uri("SCHEMA", <<"P","e","r","s","o","n">>)>>,
       <<<<"i","n","f","o","b","o","x"," ","c","h","a","r","a","c","t","e","r">>, Uri("SCHEMA", <<"P","e","r","s","o","n">>)>>,
       <<<<"p","l","a","c","e">>, Uri("SCHEMA", <<"P","l","a","c","e">>)>>,
       <<<<"l","o","c","a","t","i","o","n">>, Uri("SCHEMA", <<"P","l","a","c","e">>)>>,
       <<<<"a","r","t","i","f","a","c","t">>, SchemaThing>>,
       <<<<"i","t","e","m">>, SchemaThing>>,
       <<<<"e","v","e","n","t">>, Uri("SCHEMA", <<"E","v","e","n","t">>)>>,
       <<<<"o","r","g","a","n","i","z","a","t","i","o","n">>, Uri("SCHEMA", <<"O","r","g","a","n","i","z","a","t","i","o","n">>)>> >>

\* entity_type is an optional string; None and '' both fall to Thing
determine_class(entity_type) ==
    IF entity_type = None \/ entity_type[1] = <<>> THEN SchemaThing
    ELSE LET entity_type_lower == Lower(entity_type[1])
             hits == {n \in 1..Len(type_mappings) :
                         Contains(entity_type_lower, type_mappings[n][1])}
         IN  IF hits = {} THEN SchemaThing
             ELSE type_mappings[CHOOSE n \in hits : \A m \in hits : n <= m][2]

IsDigit(c) == \E n \in 1..Len(Digits) : Digits[n] = c

DigitValue(c) == (CHOOSE n \in 1..Len(Digits) : Digits[n] = c) - 1

\* the text int() accepts: whitespace, an optional sign, digits that single
\* underscores may separate
IntBody(s) ==
    LET t == Strip(s)
    IN  IF t # <<>> /\ t[1] \in {"+", "-"} THEN Tail(t) ELSE t

IntParses(s) ==
    LET b == IntBody(s)
    IN  /\ b # <<>>
        /\ IsDigit(b[1]) /\ IsDigit(b[Len(b)])
        /\ \A n \in 1..Len(b) : IsDigit(b[n]) \/ b[n] = "_"
        /\ \A n \in 1..(Len(b) - 1) : ~(b[n] = "_" /\ b[n + 1] = "_")

RECURSIVE DecimalValue(_)
DecimalValue(ds) ==
    IF ds = <<>> THEN 0
    ELSE 10 * DecimalValue(SubSeq(ds, 1, Len(ds) - 1)) + DigitValue(ds[Len(ds)])

\* int(s) where IntParses(s)
IntValue(s) ==
    LET t == Strip(s)
        m == DecimalValue(RemoveChar(IntBody(s), "_"))
    IN  IF t[1] = "-" THEN 0 - m ELSE m

\* the gender branch of create_typed_literal
GenderLiteralMaleOnly(value) ==
    LET gender_normalized == Strip(value)
    IN  IF Lower(gender_normalized) = <<"m","a","l","e">> THEN Lit(<<"M","a","l","e">>, "")
        ELSE Lit(<<"U","n","k","n","o","w","n">>, "")

GenderLiteralNoStrip(value) ==
    IF Lower(value) = <<"m","a","l","e">> THEN Lit(<<"M","a","l","e">>, "")
    ELSE IF Lower(value) = <<"f","e","m","a","l","e">> THEN Lit(<<"F","e","m","a","l","e">>, "")
    ELSE Lit(<<"U","n","k","n","o","w","n">>, "")

GenderLiteral(value) ==
    LET gender_normalized == Strip(value)
    IN  IF Lower(gender_normalized) = <<"m","a","l","e">> THEN Lit(<<"M","a","l","e">>, "")
        ELSE IF Lower(gender_normalized) = <<"f","e","m","a","l","e">> THEN Lit(<<"F","e","m","a","l","e">>, "")
        ELSE Lit(<<"U","n","k","n","o","w","n">>, "")

create_typed_literal(value, field) ==
    LET f == Lower(field)
    IN  IF Contains(f, <<"d","a","t","e">>) \/ Contains(f, <<"b","i","r","t","h">>) \/ Contains(f, <<"d","e","a","t","h">>)
        THEN Lit(value, "en")
        ELSE IF f \in {<<"a","g","e">>, <<"h","e","i","g","h","t">>}
        THEN IF IntParses(value) THEN NumLit(IntValue(value), 1, "integer")
             ELSE Lit(value, "en")
        ELSE IF f = <<"g","e","n","d","e","r">> THEN GenderLiteral(value)
        ELSE Lit(value, "en")

\* title = entity.get('title', entity.get('entity_id'))
add_basic_triples(entity, resource_uri, page_uri) ==
    LET title == entity.title
    IN  { <<resource_uri, RdfType, determine_class(entity.type)>>,
          <<resource_uri, RdfsLabel, Lit(title, "en")>>,
          <<resource_uri, SchemaName, Lit(title, "en")>>,
          <<page_uri, Uri("FOAF", <<"p","r","i","m","a","r","y","T","o","p","i","c">>), resource_uri>>,
          <<resource_uri, Uri("FOAF", <<"i","s","P","r","i","m","a","r","y","T","o","p","i","c","O","f">>), page_uri>>,
          <<page_uri, RdfType, Uri("SCHEMA", <<"W","e","b","P","a","g","e">>)>>,
          <<page_uri, Uri("DCTERMS", <<"t","i","t","l","e">>), Lit(title, "")>> }

\* the body of the loop of add_infobox_triples for one parameter
ParameterTriplesBoth(resource_uri, field, value_data) ==
    LET prop == PropertyFor(field)
    IN  IF value_data.cleaned = <<>> \/ Strip(value_data.cleaned) = <<>> THEN {}
        ELSE {<<resource_uri, prop, create_uri(value_data.internal_links[n], "resource")>> :
                  n \in 1..Len(value_data.internal_links)}
             \cup {<<resource_uri, prop, create_typed_literal(value_data.cleaned, field)>>}

ParameterTriples(resource_uri, field, value_data) ==
    LET prop == PropertyFor(field)
    IN  IF value_data.cleaned = <<>> \/ Strip(value_data.cleaned) = <<>> THEN {}
        ELSE IF value_data.internal_links # <<>>
        THEN {<<resource_uri, prop, create_uri(value_data.internal_links[n], "resource")>> :
                  n \in 1..Len(value_data.internal_links)}
        ELSE {<<resource_uri, prop, create_typed_literal(value_data.cleaned, field)>>}

add_infobox_triples(entity, resource_uri) ==
    IF entity.infobox = None THEN {}
    ELSE LET parameters == entity.infobox[1].parameters
         IN  UNION {ParameterTriples(resource_uri, parameters[n].key, parameters[n])
                        : n \in 1..Len(parameters)}

\* the triples process_entity adds to the graph
process_entity(entity) ==
    IF entity.entity_id = <<>> THEN {}
    ELSE LET resource_uri == create_uri(entity.entity_id, "resource")
             page_uri == create_uri(entity.entity_id, "page")
         IN  add_basic_triples(entity, resource_uri, page_uri)
             \cup add_infobox_triples(entity, resource_uri)

-----------------------------------------------------------------------------
(* Step 4: CombinedEnricher, the index and the matcher                     *)

\* a float as the fraction <<num, den>> with den > 0
One == <<1, 1>>

Zero == <<0, 1>>

FracLess(x, y) == x[1] * y[2] < y[1] * x[2]

FracGeq(x, y) == ~FracLess(x, y)

FracEq(x, y) == x[1] * y[2] = y[1] * x[2]

RECURSIVE Gcd(_, _)
Gcd(a, b) == IF b = 0 THEN a ELSE Gcd(b, a % b)

\* one value per float: the fraction in lowest terms
Reduced(x) ==
    IF x[1] = 0 THEN Zero
    ELSE LET g == Gcd(x[1], x[2]) IN <<x[1] \div g, x[2] \div g>>

\* difflib find_longest_match without junk: the longest common block, the
\* earliest in a among the longest, the earliest in b among those
find_longest_match(a, b) ==
    LET blocks == {blk \in (1..Len(a)) \X (1..Len(b)) \X (1..Len(a)) :
                      /\ blk[1] + blk[3] - 1 <= Len(a)
                      /\ blk[2] + blk[3] - 1 <= Len(b)
                      /\ SubSeq(a, blk[1], blk[1] + blk[3] - 1)
                            = SubSeq(b, blk[2], blk[2] + blk[3] - 1)}
    IN  IF blocks = {} THEN <<1, 1, 0>>
        ELSE CHOOSE blk \in blocks : \A o \in blocks :
                 \/ blk[3] > o[3]
                 \/ blk[3] = o[3] /\ blk[1] < o[1]
                 \/ blk[3] = o[3] /\ blk[1] = o[1] /\ blk[2] <= o[2]

RECURSIVE matching_size(_, _)
\* the sum of the sizes of get_matching_blocks: the longest block, then the
\* pieces to its left, then the pieces to its right
matching_size(a, b) ==
    IF a = <<>> \/ b = <<>> THEN 0
    ELSE LET blk == find_longest_match(a, b)
         IN  IF blk[3] = 0 THEN 0
             ELSE blk[3]
                  + matching_size(SubSeq(a, 1, blk[1] - 1), SubSeq(b, 1, blk[2] - 1))
                  + matching_size(SubSeq(a, blk[1] + blk[3], Len(a)),
                                  SubSeq(b, blk[2] + blk[3], Len(b)))

\* SequenceMatcher(None, a, b).ratio(): 2.0 * matches / length, 1.0 if both empty
ratio(a, b) ==
    IF Len(a) + Len(b) = 0 THEN One
    ELSE Reduced(<<2 * matching_size(a, b), Len(a) + Len(b)>>)

similarity_score(str1, str2) == ratio(Lower(str1), Lower(str2))

\* the dict self.entity_index: a sequence of <<key, uri>> with distinct keys,
\* in insertion order
IndexKeys(index) == {index[n][1] : n \in 1..Len(index)}

IndexGet(index, key) ==
    index[CHOOSE n \in 1..Len(index) : index[n][1] = key][2]

\* a dict that keeps the first value stored under a key
IndexPutFirst(index, key, uri) ==
    IF key \in IndexKeys(index) THEN index ELSE Append(index, <<key, uri>>)

\* index[key] = uri: a new key is appended, a known key keeps its place
IndexPut(index, key, uri) ==
    IF key \in IndexKeys(index)
    THEN [n \in 1..Len(index) |-> IF index[n][1] = key THEN <<key, uri>> ELSE index[n]]
    ELSE Append(index, <<key, uri>>)

\* str(term): the lexical form of a literal, the full IRI of a URIRef
NamespaceBase(ns) ==
    CASE ns = "RESOURCE" -> <<"h","t","t","p",":","/","/","t","o","l","k","i","e","n","g","a","t","e","w","a","y",".","s","e","m","a","n","t","i","c","w","e","b",".","o","r","g","/","r","e","s","o","u","r","c","e","/">>
      [] ns = "PAGE" -> <<"h","t","t","p",":","/","/","t","o","l","k","i","e","n","g","a","t","e","w","a","y",".","s","e","m","a","n","t","i","c","w","e","b",".","o","r","g","/","p","a","g","e","/">>
      [] ns = "PROP" -> <<"h","t","t","p",":","/","/","t","o","l","k","i","e","n","g","a","t","e","w","a","y",".","s","e","m","a","n","t","i","c","w","e","b",".","o","r","g","/","p","r","o","p","e","r","t","y","/">>
      [] ns = "SCHEMA" -> <<"h","t","t","p",":","/","/","s","c","h","e","m","a",".","o","r","g","/">>
      [] ns = "METW" -> <<"h","t","t","p",":","/","/","m","e","t","w",".","o","r","g","/","c","a","r","d","/">>
      [] OTHER -> <<"h","t","t","p",":","/","/","t","o","l","k","i","e","n","g","a","t","e","w","a","y",".","s","e","m","a","n","t","i","c","w","e","b",".","o","r","g","/">>

TermStr(o) == IF o.k = "uri" THEN NamespaceBase(o.ns) \o o.v ELSE o.v

RECURSIVE IndexRows(_, _)
\* the body of the loop of _build_entity_index over the query's rows
IndexRows(index, rows) ==
    IF rows = <<>> THEN index
    ELSE LET entity_uri == rows[1][1]
             name == Lower(TermStr(rows[1][2]))
             normalized == RemoveChar(RemoveChar(RemoveChar(name, "-"), "_"), ".")
         IN  IndexRows(IndexPut(IndexPut(IndexPut(index, name, entity_uri),
                                         RemoveChar(name, " "), entity_uri),
                                normalized, entity_uri),
                       Tail(rows))

\* the rows of SELECT ?entity ?name WHERE { ?entity schema:name ?name }
NameRows(g) == {<<t[1], t[3]>> : t \in {u \in g : u[2] = SchemaName}}

\* rows is the query's result, in the order the store yields it
build_entity_index(rows) == IndexRows(<<>>, rows)

\* a match: matched is None or the entity's URI, score the confidence
Match(matched, score) == [matched |-> matched, score |-> score]

RECURSIVE FuzzyScan(_, _, _, _, _, _)
\* the loop of find_best_match over self.entity_index.items(), from item n
FuzzyScan(index, n, name, threshold, best_score, best_match) ==
    IF n > Len(index) THEN Match(best_match, best_score)
    ELSE LET score == similarity_score(name, index[n][1])
         IN  IF FracLess(best_score, score) /\ FracGeq(score, threshold)
             THEN FuzzyScan(index, n + 1, name, threshold, score, Some(index[n][2]))
             ELSE FuzzyScan(index, n + 1, name, threshold, best_score, best_match)

\* the fuzzy part of find_best_match
FuzzyMatchLast(index, name, threshold) ==
    LET ok == {n \in 1..Len(index) :
                  /\ FracGeq(similarity_score(name, index[n][1]), threshold)
                  /\ FracLess(Zero, similarity_score(name, index[n][1]))}
    IN  IF ok = {} THEN Match(None, Zero)
        ELSE LET n == CHOOSE m \in ok : \A o \in ok :
                          \/ FracLess(similarity_score(name, index[o][1]),
                                      similarity_score(name, index[m][1]))
                          \/ /\ FracEq(similarity_score(name, index[o][1]),
                                       similarity_score(name, index[m][1]))
                             /\ o <= m
             IN  Match(Some(index[n][2]), similarity_score(name, index[n][1]))

FuzzyMatch(index, name, threshold) ==
    LET r == FuzzyScan(index, 1, name, threshold, Zero, None)
    IN  IF r.matched # None THEN r ELSE Match(None, Zero)

\* find_best_match with the fuzzy comparison first
FindBestMatchFuzzyFirst(index, name, threshold) ==
    LET name_lower == Lower(name)
        name_no_spaces == RemoveChar(name_lower, " ")
        f == FuzzyMatch(index, name, threshold)
    IN  IF f.matched # None THEN f
        ELSE IF name_lower \in IndexKeys(index)
        THEN Match(Some(IndexGet(index, name_lower)), One)
        ELSE IF name_no_spaces \in IndexKeys(index)
        THEN Match(Some(IndexGet(index, name_no_spaces)), One)
        ELSE f

find_best_match(index, name, threshold) ==
    LET name_lower == Lower(name)
        name_no_spaces == RemoveChar(name_lower, " ")
    IN  IF name_lower \in IndexKeys(index)
        THEN Match(Some(IndexGet(index, name_lower)), One)
        ELSE IF name_no_spaces \in IndexKeys(index)
        THEN Match(Some(IndexGet(index, name_no_spaces)), One)
        ELSE FuzzyMatch(index, name, threshold)

\* an index that learns the name it was asked for once the name is matched
IndexLearnsMatch(index, name, match_result) ==
    IF match_result.matched = None THEN index
    ELSE IndexPut(index, Lower(name), match_result.matched[1])

\* self.entity_index after a lookup of the enrichment loops: it is assigned
\* in __init__ alone, find_best_match and the loops only read it
IndexAfterMatch(index, name, match_result) == index

-----------------------------------------------------------------------------
(* Step 4: card enrichment                                                 *)
(*                                                                         *)
(* A JSON value of a card is a string, an integer from 0 to 9 or a dict of *)
(* languages, of which 'en', 'es' and 'fr' are read.  A card is its keys    *)
(* name, id, type and alignment as optionals and its other keys in order.  *)

StrValue(s) == [kind |-> "str", s |-> s, n |-> 0, en |-> None, es |-> None, fr |-> None]

NumValue(n) == [kind |-> "int", s |-> <<>>, n |-> n, en |-> None, es |-> None, fr |-> None]

DictValue(en, es, fr) == [kind |-> "dict", s |-> <<>>, n |-> 0, en |-> en, es |-> es, fr |-> fr]

Card(name, id, type, alignment, other) ==
    [name |-> name, id |-> id, type |-> type, alignment |-> alignment, other |-> other]

\* str(value) of a string or an integer
ValueStr(value) == IF value.kind = "int" THEN <<Digits[value.n + 1]>> ELSE value.s

\* the truth value Python gives a JSON value
Truthy(value) ==
    CASE value.kind = "str" -> value.s # <<>>
      [] value.kind = "int" -> value.n # 0
      [] value.kind = "dict" -> value.en # None \/ value.es # None \/ value.fr # None

\* the name of a card as enrich_with_metw reads it, stripped
card_name_of(card) ==
    LET card_name_obj == IF card.name = None THEN StrValue(<<>>) ELSE card.name[1]
    IN  IF card_name_obj.kind = "dict"
        THEN Strip(IF card_name_obj.en # None THEN card_name_obj.en[1]
                   ELSE IF card_name_obj.es # None THEN card_name_obj.es[1]
                   ELSE IF card_name_obj.fr # None THEN card_name_obj.fr[1]
                   ELSE <<>>)
        ELSE Strip(ValueStr(card_name_obj))

\* the fact enrich_with_metw adds for one of the other keys of a card; a
\* dict of languages holds 'en' in every card of the inputs
OtherTriples(card_uri, key, value) ==
    IF ~Truthy(value) THEN {}
    ELSE LET prop_uri == Uri("METW", <<"c","a","r","d","_">> \o key)
         IN  CASE value.kind = "dict" -> {<<card_uri, prop_uri, Lit(value.en[1], "en")>>}
               [] value.kind = "int" -> {<<card_uri, prop_uri, NumLit(value.n, 1, "integer")>>}
               [] value.kind = "str" -> {<<card_uri, prop_uri, Lit(value.s, "en")>>}

\* the facts of a card that is linked by schema:subjectOf alone
CardTriplesSubjectOnly(index, card, fuzzy_threshold) ==
    IF card_name_of(card) = <<>> THEN {}
    ELSE UNION {
      IF match_result.matched = None THEN {}
      ELSE LET card_uri == Uri("METW", IF card.id # None THEN card.id[1]
                                       ELSE ReplaceChar(card_name_of(card), " ", "_"))
           IN  { <<card_uri, RdfType, SchemaThing>>,
                 <<card_uri, RdfsLabel, Lit(card_name_of(card), "en")>>,
                 <<match_result.matched[1], Uri("SCHEMA", <<"s","u","b","j","e","c","t","O","f">>), card_uri>> }
      : match_result \in {find_best_match(index, card_name_of(card), fuzzy_threshold)} }

\* the facts one pass of the loop of enrich_with_metw adds for a card
CardTriples(index, card, fuzzy_threshold) ==
    LET card_name == card_name_of(card)
    IN  IF card_name = <<>> THEN {}
        ELSE UNION {
          IF match_result.matched = None THEN {}
          ELSE LET entity_uri == match_result.matched[1]
                   card_id == IF card.id # None THEN card.id[1]
                              ELSE ReplaceChar(card_name, " ", "_")
                   card_uri == Uri("METW", card_id)
                   card_type == IF card.type = None THEN <<>>
                                ELSE IF card.type[1].kind = "dict" THEN card.type[1].en[1]
                                ELSE ValueStr(card.type[1])
               IN  { <<card_uri, RdfType, SchemaThing>>,
                     <<card_uri, RdfsLabel, Lit(card_name, "en")>>,
                     <<entity_uri, Uri("SCHEMA", <<"s","u","b","j","e","c","t","O","f">>), card_uri>>,
                     <<entity_uri, Uri("PROP", <<"h","a","s","C","a","r","d">>), card_uri>> }
                   \cup (IF card.type = None THEN {}
                         ELSE {<<card_uri, Uri("SCHEMA", <<"a","d","d","i","t","i","o","n","a","l","T","y","p","e">>),
                                 Lit(card_type, "en")>>})
                   \cup (IF card.alignment = None THEN {}
                         ELSE {<<card_uri, Uri("SCHEMA", <<"a","d","d","i","t","i","o","n","a","l","P","r","o","p","e","r","t","y">>),
                                 Lit(<<"a","l","i","g","n","m","e","n","t",":"," ">> \o card.alignment[1], "en")>>})
                   \cup UNION {OtherTriples(card_uri, card.other[n][1], card.other[n][2]) :
                                  n \in 1..Len(card.other)}
          : match_result \in {find_best_match(index, card_name, fuzzy_threshold)} }

\* whether the card is counted in stats['metw']['linked_cards']
CardLinked(index, card, fuzzy_threshold) ==
    /\ card_name_of(card) # <<>>
    /\ find_best_match(index, card_name_of(card), fuzzy_threshold).matched # None

\* all_cards of a file of card sets, each set the cards under its 'cards' key
all_cards(sets) == Concat(sets)

-----------------------------------------------------------------------------
(* Step 4: CSV enrichment                                                  *)

SchemaIsBasedOn == Uri("SCHEMA", <<"i","s","B","a","s","e","d","O","n">>)

PropCsvMatchScore == Uri("PROP", <<"c","s","v","M","a","t","c","h","S","c","o","r","e">>)

PropRealm == Uri("PROP", <<"r","e","a","l","m">>)

PropRealmName == Uri("PROP", <<"r","e","a","l","m","N","a","m","e">>)

CsvProvenance == Lit(<<"L","O","T","R"," ","C","h","a","r","a","c","t","e","r","s"," ","C","S","V"," ","D","a","t","a","s","e","t">>, "en")

\* the fuzzy_threshold main() passes to enrich_with_csv: 0.85
CsvThreshold == <<17, 20>>

\* the threshold of the spouse lookup: 0.9
SpouseThreshold == <<9, 10>>

\* value is an optional string (None: the column is missing)
clean_value(value) ==
    IF value = None \/ value[1] = <<>> \/ Strip(value[1]) = <<>> THEN None
    ELSE LET cleaned == Strip(value[1])
         IN  IF cleaned \in {<<",">>, <<"-">>, <<>>, <<"N","o","n","e">>, <<"n","o","n","e">>} THEN None
             ELSE Some(cleaned)

HasNoFactIgnored(g, s, p) == TRUE

\* not list(self.graph.objects(entity_uri, p))
has_no_fact(g, s, p) == Objects(g, s, p) = {}

ScoreTriplesAlways(entity_uri, match_score) ==
    {<<entity_uri, PropCsvMatchScore, NumLit(match_score[1], match_score[2], "float")>>}

\* if match_score < 1.0: add the csvMatchScore literal
ScoreTriples(entity_uri, match_score) ==
    IF FracLess(match_score, One)
    THEN {<<entity_uri, PropCsvMatchScore, NumLit(match_score[1], match_score[2], "float")>>}
    ELSE {}

\* a single-valued field: one language-tagged literal under p, if p is free
SingleField(g, entity_uri, value, p) ==
    LET v == clean_value(value)
    IN  IF v # None /\ has_no_fact(g, entity_uri, p)
        THEN {<<entity_uri, p, Lit(v[1], "en")>>}
        ELSE {}

\* [r.strip() for r in value.split(',')] without the empty tokens
Tokens(value) ==
    LET parts == Split(value, ",")
    IN  {Strip(parts[n]) : n \in 1..Len(parts)} \ {<<>>}

RaceField(g, entity_uri, value) ==
    LET race == clean_value(value)
    IN  IF race # None /\ has_no_fact(g, entity_uri, PropRace)
        THEN {<<entity_uri, PropRace, Lit(t, "en")>> : t \in Tokens(race[1])}
        ELSE {}

RealmField(g, entity_uri, value) ==
    LET realm == clean_value(value)
    IN  IF realm # None /\ has_no_fact(g, entity_uri, PropRealm)
        THEN {<<entity_uri, PropRealm, Uri("RESOURCE", ReplaceChar(t, " ", "_"))>> :
                  t \in Tokens(realm[1])}
             \cup {<<entity_uri, PropRealmName, Lit(t, "en")>> : t \in Tokens(realm[1])}
        ELSE {}

\* the spouse branch without the lookup of the spouse in the index
SpouseFieldNoLookup(g, index, entity_uri, value) ==
    LET spouse == clean_value(value)
    IN  IF spouse # None /\ has_no_fact(g, entity_uri, SchemaSpouse)
        THEN {<<entity_uri, SchemaSpouse, Uri("RESOURCE", ReplaceChar(spouse[1], " ", "_"))>>}
        ELSE {}

SpouseField(g, index, entity_uri, value) ==
    LET spouse == clean_value(value)
    IN  IF spouse # None /\ has_no_fact(g, entity_uri, SchemaSpouse)
        THEN LET spouse_match == find_best_match(index, spouse[1], SpouseThreshold)
             IN  IF spouse_match.matched # None
                 THEN {<<entity_uri, SchemaSpouse, spouse_match.matched[1]>>}
                 ELSE {<<entity_uri, SchemaSpouse,
                         Uri("RESOURCE", ReplaceChar(spouse[1], " ", "_"))>>}
        ELSE {}

\* one statement of add_csv_character_triples: the graph g with the triples
\* Field(g) added, Field reading g as the statements before left it
AddTo(g, Field(_)) == UNION {x \cup Field(x) : x \in {g}}

\* the graph after add_csv_character_triples
add_csv_character_triples(g, index, entity_uri, csv_data, match_score) ==
    LET g0 == g \cup {<<entity_uri, SchemaIsBasedOn, CsvProvenance>>}
        g1 == g0 \cup ScoreTriples(entity_uri, match_score)
        g2 == AddTo(g1, LAMBDA x : SingleField(x, entity_uri, csv_data.birth, SchemaBirthDate))
        g3 == AddTo(g2, LAMBDA x : SingleField(x, entity_uri, csv_data.death, SchemaDeathDate))
        g4 == AddTo(g3, LAMBDA x : SingleField(x, entity_uri, csv_data.gender, SchemaGender))
        g5 == AddTo(g4, LAMBDA x : SingleField(x, entity_uri, csv_data.hair, PropHairColor))
        g6 == AddTo(g5, LAMBDA x : SingleField(x, entity_uri, csv_data.height, SchemaHeight))
        g7 == AddTo(g6, LAMBDA x : RaceField(x, entity_uri, csv_data.race))
        g8 == AddTo(g7, LAMBDA x : RealmField(x, entity_uri, csv_data.realm))
        g9 == AddTo(g8, LAMBDA x : SpouseField(x, index, entity_uri, csv_data.spouse))
    IN  g9 \cup {<<entity_uri, SchemaIsBasedOn, CsvProvenance>>}

CsvFields == {"birth", "death", "gender", "hair", "height", "race", "realm", "spouse"}

\* the fields whose 'enriched_fields' counter add_csv_character_triples bumps
EnrichedFields(g, entity_uri, csv_data) ==
    LET p == [birth |-> SchemaBirthDate, death |-> SchemaDeathDate,
              gender |-> SchemaGender, hair |-> PropHairColor,
              height |-> SchemaHeight, race |-> PropRace,
              realm |-> PropRealm, spouse |-> SchemaSpouse]
    IN  {f \in CsvFields : clean_value(csv_data[f]) # None /\ has_no_fact(g, entity_uri, p[f])}

\* self.stats['csv'] as __init__ leaves it
InitCsvStats ==
    [stage |-> "csv",
     total_characters |-> 0,
     exact_matches |-> 0,
     fuzzy_matches |-> 0,
     no_matches |-> 0,
     triples_added |-> 0,
     enriched_fields |-> [f \in CsvFields |-> 0]]

-----------------------------------------------------------------------------
(* Values of the variables a specification does not use                    *)

NoStats == [stage |-> "none"]

NoCall == [op |-> "none"]

NoLast == [op |-> "none"]

\* self.stats['metw'] as __init__ leaves it
InitMetwStats == [total_cards |-> 0, linked_cards |-> 0, triples_added |-> 0]

\* no card has been read
NoMetw ==
    /\ cards = <<>>
    /\ metw_stats = InitMetwStats

\* Step 3 __init__: nothing counted, an empty shapes graph
NoShape ==
    /\ property_usage = <<>>
    /\ property_datatypes = <<>>
    /\ shape_graph = [shapes |-> {}, properties |-> {}]

\* Step 1 has not run
NoParse ==
    /\ pages = <<>>
    /\ normalized_entities = <<>>
    /\ hash_seed = 0
    /\ previous = None

-----------------------------------------------------------------------------
(* Step 2 inputs: entities as Step 1 writes them to normalized_entities    *)

\* template_name is optional: None is a page without infobox
Entity(title, template_name, parameters) ==
    [entity_id |-> title,
     title |-> title,
     type |-> IF template_name = None THEN None
              ELSE Some(template_name[1]),
     infobox |-> IF template_name = None THEN None
                 ELSE Some([template_name |-> template_name[1],
                            parameters |-> parameters])]

EntitySam ==
    Entity(<<"S","a","m">>, Some(<<"c","h","a","r","a","c","t","e","r">>),
           << Param(<<"g","e","n","d","e","r">>, <<"m","a","l","e">>, <<"m","a","l","e">>, <<>>),
              Param(<<"r","a","c","e">>, <<"[","[","H","o","b","b","i","t","]","]">>, <<"H","o","b","b","i","t">>, <<<<"H","o","b","b","i","t">>>>),
              Param(<<"h","e","i","g","h","t">>, <<"4">>, <<"4">>, <<>>) >>)

EntityTomB ==
    Entity(<<"T","o","m"," ","B">>, Some(<<"C","h","a","r","a","c","t","e","r">>),
           << Param(<<"b","i","r","t","h","D","a","t","e">>, <<"T","A"," ","1">>, <<"T","A"," ","1">>, <<>>),
              Param(<<"g","e","n","d","e","r">>, <<"[","[","M","a","l","e","]","]">>, <<"M","a","l","e">>, <<<<"M","a","l","e">>>>) >>)

EntityAb ==
    Entity(<<"A","-","b">>, Some(<<"p","l","a","c","e">>),
           << Param(<<"o","t","h","e","r","N","a","m","e","s">>, <<"[","[","A","b","]","]">>, <<"A","b">>, <<<<"A","b">>>>),
              Param(<<"r","e","a","l","N","a","m","e">>, <<"A","b","e">>, <<"A","b","e">>, <<>>),
              Param(<<"n","o","t","e">>, <<"<","!","-","-","x","-","-",">">>, <<>>, <<>>) >>)

EntityEve == Entity(<<"E","v","e">>, None, <<>>)

EntityAnn ==
    Entity(<<"A","n","n">>, Some(<<"c","h","a","r","a","c","t","e","r">>),
           << Param(<<"g","e","n","d","e","r">>, <<"F","e","m","a","l","e">>, <<"F","e","m","a","l","e">>, <<>>),
              Param(<<"s","p","o","u","s","e">>, <<"[","[","S","a","m","]","]",","," ","[","[","T","o","m"," ","B","]","]">>, <<"S","a","m",","," ","T","o","m"," ","B">>, <<<<"S","a","m">>, <<"T","o","m"," ","B">>>>),
              Param(<<"h","a","i","r">>, <<"r","e","d">>, <<"r","e","d">>, <<>>),
              Param(<<"h","e","i","g","h","t">>, <<"t","a","l","l">>, <<"t","a","l","l">>, <<>>) >>)

EntityBob ==
    Entity(<<"B","o","b">>, Some(<<"e","v","e","n","t"," ","i","t","e","m">>),
           << Param(<<"n","a","m","e">>, <<"[","[","B","o","]","]">>, <<"B","o">>, <<<<"B","o">>>>),
              Param(<<"g","e","n","d","e","r">>, <<"n","/","a">>, <<"n","/","a">>, <<>>),
              Param(<<"w","e","a","p","o","n","s">>, <<"[","[","A","x","e","]","]">>, <<"A","x","e">>, <<<<"A","x","e">>>>),
              Param(<<"w","e","a","p","o","n">>, <<"b","o","w">>, <<"b","o","w">>, <<>>) >>)

\* an entity id that differs from 'Tom B' in an underscore for the space
EntityTom_B == Entity(<<"T","o","m","_","B">>, Some(<<"I","n","f","o","b","o","x"," ","p","l","a","c","e">>), <<>>)

EntitySet ==
    {EntitySam, EntityTomB, EntityAb, EntityEve, EntityAnn, EntityBob, EntityTom_B}

\* batches of at most n entities with pairwise distinct entity ids
Batches(S, n) ==
    {b \in UNION {[1..m -> S] : m \in 1..n} :
        \A x, y \in 1..Len(b) : x # y => b[x].entity_id # b[y].entity_id}

-----------------------------------------------------------------------------
(* Specification SpecBuild: generate_from_file over one batch              *)

InitBuild ==
    /\ NoParse
    /\ NoMetw
    /\ NoShape
    /\ pc = "build"
    /\ entities \in Batches(EntitySet, MaxEntities)
    /\ graph = {}
    /\ i = 0
    /\ last = NoLast
    /\ entity_index = <<>>
    /\ characters = <<>>
    /\ stats = NoStats
    /\ call = NoCall

\* one iteration of the loop of generate_from_file
ProcessEntity ==
    /\ pc = "build"
    /\ i < Len(entities)
    /\ graph' = GraphAdd(graph, process_entity(entities[i + 1]))
    /\ i' = i + 1
    /\ last' = [op |-> "process_entity", entity |-> entities[i + 1], before |-> graph]
    /\ UNCHANGED <<pc, entities, entity_index, characters, stats, call, parseVars, metwVars, shapeVars>>

\* the loop is over: generate_from_file returns the graph
BuildDone ==
    /\ pc = "build"
    /\ i = Len(entities)
    /\ pc' = "built"
    /\ UNCHANGED <<graph, i, last, entities, entity_index, characters, stats, call, parseVars, metwVars, shapeVars>>

NextBuild == ProcessEntity \/ BuildDone

SpecBuild == InitBuild /\ [][NextBuild]_vars

-----------------------------------------------------------------------------
(* Specification SpecLiteral: create_typed_literal on one value            *)

GenderWords ==
    {<<"m","a","l","e">>, <<"f","e","m","a","l","e">>, <<"m","a","l">>, <<"m","a","l","e","s">>, <<"m","a"," ","l","e">>, <<"u","n","k","n","o","w","n">>, <<"f","e"," ","m","a","l","e">>, <<>>}

\* the set of positions of w written in upper case
Cased(w, up) == [n \in 1..Len(w) |-> IF n \in up THEN UpperChar(w[n]) ELSE w[n]]

Spaces(n) == [m \in 1..n |-> " "]

LiteralFields == {<<"g","e","n","d","e","r">>, <<"G","e","n","d","e","r">>, <<"h","e","i","g","h","t">>, <<"b","i","r","t","h","D","a","t","e">>, <<"r","a","c","e">>}

InitLiteral ==
    /\ NoParse
    /\ NoMetw
    /\ NoShape
    /\ pc = "literal"
    /\ \E w \in GenderWords, l \in 0..MaxPad, r \in 0..MaxPad, f \in LiteralFields :
         \E up \in SUBSET (1..Len(w)) :
            call = [op |-> "create_typed_literal",
                    word |-> w,
                    value |-> Spaces(l) \o Cased(w, up) \o Spaces(r),
                    field |-> f,
                    result |-> None]
    /\ graph = {}
    /\ i = 0
    /\ last = NoLast
    /\ entities = <<>>
    /\ entity_index = <<>>
    /\ characters = <<>>
    /\ stats = NoStats

CreateTypedLiteral ==
    /\ pc = "literal"
    /\ call.result = None
    /\ call' = [call EXCEPT !.result = Some(create_typed_literal(call.value, call.field))]
    /\ UNCHANGED <<pc, graph, i, last, entities, entity_index, characters, stats, parseVars, metwVars, shapeVars>>

NextLiteral == CreateTypedLiteral

SpecLiteral == InitLiteral /\ [][NextLiteral]_vars

-----------------------------------------------------------------------------
(* Specification Spec: one run of Step 4 over a graph Step 2 wrote         *)

RECURSIVE Generate(_)
\* generate_from_file: the graph of a batch of entities
Generate(batch) ==
    IF batch = <<>> THEN {}
    ELSE process_entity(Head(batch)) \cup Generate(Tail(batch))

\* the batches whose graphs the enricher is run on
BaseBatches ==
    { <<EntitySam, EntityTomB>>, <<EntityAnn, EntitySam>>, <<EntityAb, EntityTomB>> }

\* the orders in which a store may yield the members of S
Orderings(S) ==
    {q \in [1..Cardinality(S) -> S] : \A x, y \in 1..Cardinality(S) : x # y => q[x] # q[y]}

CsvRow(name, f) ==
    [name |-> name,
     birth |-> f.birth, death |-> f.death, gender |-> f.gender, hair |-> f.hair,
     height |-> f.height, race |-> f.race, realm |-> f.realm, spouse |-> f.spouse]

\* a row of empty columns, as csv.DictReader yields them
Blank ==
    [birth |-> Some(<<>>), death |-> Some(<<>>), gender |-> Some(<<>>),
     hair |-> Some(<<>>), height |-> Some(<<>>), race |-> Some(<<>>),
     realm |-> Some(<<>>), spouse |-> Some(<<>>)]

RowSet ==
    { CsvRow(<<"S","a","m">>, [Blank EXCEPT !.birth = Some(<<"T","A"," ","2">>), !.height = Some(<<"4","f","t">>),
                                   !.gender = Some(<<"M","a","l","e">>)]),
      CsvRow(<<"S","a","m">>, [Blank EXCEPT !.birth = Some(<<"T","A"," ","3">>), !.realm = Some(<<",",",">>)]),
      CsvRow(<<"T","o","m"," ","B">>, [Blank EXCEPT !.birth = Some(<<"T","A"," ","9">>), !.death = Some(<<"-">>),
                                     !.hair = Some(<<"b","r","o","w","n">>)]),
      CsvRow(<<"T","o","m"," ","B">>, [Blank EXCEPT !.height = Some(<<"4","f","t">>), !.death = Some(<<",">>),
                                     !.spouse = Some(<<"n","o","n","e">>), !.gender = Some(<<" ">>)]),
      CsvRow(<<"S","a","m","m">>, [Blank EXCEPT !.height = Some(<<" ","4","f","t">>), !.spouse = None]),
      CsvRow(<<"T"," ","o","m"," ","B">>, [Blank EXCEPT !.death = Some(<<"T","A"," ","8">>), !.race = Some(<<"M","a","n",","," ",",","E","l","f">>),
                                      !.realm = Some(<<"S","h","i","r","e",",","O","l","d"," ","B","r","e","e">>)]),
      CsvRow(<<"Z","e","d">>, [Blank EXCEPT !.birth = Some(<<"T","A"," ","5">>)]),
      CsvRow(<<"s","a","m"," ">>, [Blank EXCEPT !.spouse = Some(<<" ","t","o","m"," ","b">>), !.realm = Some(<<"B","r","e","e">>)]),
      CsvRow(<<"T","o","m"," ","B">>, [Blank EXCEPT !.spouse = Some(<<"R","o"," ","C">>), !.gender = Some(<<"M","a","l","e">>),
                                     !.realm = Some(<<"O","l","d"," ","B","r","e","e",",","O","l","d","_","B","r","e","e">>)]),
      CsvRow(<<" ">>, [Blank EXCEPT !.birth = Some(<<"T","A"," ","7">>)]) }

RowLists == UNION {[1..m -> RowSet] : m \in 0..MaxRows}

\* __init__: the graph is loaded, the index built, the statistics zeroed
Init ==
    /\ NoParse
    /\ NoMetw
    /\ NoShape
    /\ pc = "loaded"
    /\ \E batch \in BaseBatches :
         /\ graph = Generate(batch)
         /\ \E rows \in Orderings(NameRows(Generate(batch))) :
                entity_index = build_entity_index(rows)
    /\ characters = <<>>
    /\ i = 0
    /\ stats = InitCsvStats
    /\ last = NoLast
    /\ entities = <<>>
    /\ call = NoCall

\* enrich_with_csv up to its loop: the rows are read and counted
ReadCsv(rows) ==
    /\ characters' = rows
    /\ stats' = [stats EXCEPT !.total_characters = Len(rows)]
    /\ i' = 0
    /\ pc' = "csv"
    /\ UNCHANGED <<graph, entity_index, last, entities, call, parseVars, metwVars, shapeVars>>

\* enrich_with_csv is called; there was no cards file
LoadCsv ==
    /\ pc = "loaded"
    /\ \E rows \in RowLists : ReadCsv(rows)

\* the statistics after an unmatched row, with the row not counted
NoMatchStatsUncounted(st) == st

\* the statistics after a row that matched no entity
NoMatchStats(st) == [st EXCEPT !.no_matches = @ + 1]

\* the statistics after a matched row, every match counted as exact
MatchedStatsAllExact(st, match_score, added, bumped) ==
    [st EXCEPT
        !.exact_matches = @ + 1,
        !.triples_added = @ + added,
        !.enriched_fields = [f \in CsvFields |-> IF f \in bumped THEN @[f] + 1 ELSE @[f]]]

\* the statistics after a matched row: the match is counted, then the
\* triples add_csv_character_triples added and the fields it enriched
MatchedStats(st, match_score, added, bumped) ==
    [st EXCEPT
        !.exact_matches = IF match_score = One THEN @ + 1 ELSE @,
        !.fuzzy_matches = IF match_score = One THEN @ ELSE @ + 1,
        !.triples_added = @ + added,
        !.enriched_fields = [f \in CsvFields |-> IF f \in bumped THEN @[f] + 1 ELSE @[f]]]

\* the value add_csv_character_triples returns, with its final add counted
\* whether or not the fact was new
TriplesAddedCountsCall(before, after) == Cardinality(after) - Cardinality(before) + 1

\* len(self.graph) - triples_before
TriplesAdded(before, after) == Cardinality(after) - Cardinality(before)

\* one iteration of the loop of enrich_with_csv
EnrichCsvRow ==
    /\ pc \in {"csv", "csv_again"}
    /\ i < Len(characters)
    /\ \E char_data \in {characters[i + 1]} :
       \E name \in {Strip(char_data.name)} :
       \E match_result \in {find_best_match(entity_index, name, CsvThreshold)} :
         /\ entity_index' = IndexAfterMatch(entity_index, name, match_result)
         /\ IF name = <<>>
           THEN /\ last' = [op |-> "csv_skip", row |-> char_data, before |-> graph,
                            entity |-> None, score |-> Zero, stats_before |-> stats]
                /\ UNCHANGED <<graph, stats>>
           ELSE IF match_result.matched = None
           THEN /\ stats' = NoMatchStats(stats)
                /\ last' = [op |-> "csv_no_match", row |-> char_data, before |-> graph,
                            entity |-> None, score |-> Zero, stats_before |-> stats]
                /\ UNCHANGED graph
           ELSE \E after \in {add_csv_character_triples(graph, entity_index,
                                   match_result.matched[1], char_data, match_result.score)} :
                    /\ graph' = after
                    /\ stats' = MatchedStats(stats, match_result.score,
                                             TriplesAdded(graph, after),
                                             EnrichedFields(graph, match_result.matched[1],
                                                            char_data))
                    /\ last' = [op |-> "csv_match", row |-> char_data, before |-> graph,
                                entity |-> match_result.matched, score |-> match_result.score,
                                stats_before |-> stats]
    /\ i' = i + 1
    /\ UNCHANGED <<pc, characters, entities, call, parseVars, metwVars, shapeVars>>

\* the loop is over: enrich_with_csv returns
CsvDone ==
    /\ pc \in {"csv", "csv_again"}
    /\ i = Len(characters)
    /\ pc' = IF pc = "csv" THEN "enriched" ELSE "enriched_again"
    /\ UNCHANGED <<graph, entity_index, characters, i, stats, last, entities, call, parseVars, metwVars, shapeVars>>

Next == LoadCsv \/ EnrichCsvRow \/ CsvDone

Spec == Init /\ [][Next]_vars

-----------------------------------------------------------------------------
(* Specification SpecRerun: enrich_with_csv, then enrich_with_csv again on *)
(* the same file                                                           *)

RerunRowSet == {r \in RowSet : r.name \in {<<"S","a","m">>, <<"S","a","m","m">>, <<"s","a","m"," ">>, <<"T"," ","o","m"," ","B">>, <<"Z","e","d">>}}

RerunRowLists == UNION {[1..m -> RerunRowSet] : m \in 0..MaxRerunRows}

\* enrich_with_csv is called, on the file that will be read again
LoadRerunCsv ==
    /\ pc = "loaded"
    /\ \E rows \in RerunRowLists : ReadCsv(rows)

\* enrich_with_csv is called a second time: the same rows are read, the
\* graph, the index and the counters are those the first call left
RerunCsv ==
    /\ pc = "enriched"
    /\ stats' = [stats EXCEPT !.total_characters = Len(characters)]
    /\ i' = 0
    /\ pc' = "csv_again"
    /\ UNCHANGED <<graph, entity_index, characters, last, entities, call, parseVars, metwVars, shapeVars>>

NextRerun == LoadRerunCsv \/ EnrichCsvRow \/ CsvDone \/ RerunCsv

SpecRerun == Init /\ [][NextRerun]_vars

-----------------------------------------------------------------------------
(* Specification SpecPipeline: Step 2 builds the graph, Step 4 loads it    *)
(* and enriches it with the cards, then with the CSV rows                  *)

\* fuzzy_threshold of enrich_with_metw
MetwThreshold == <<17, 20>>

CardSam ==
    Card(Some(StrValue(<<"S","a","m">>)), Some(<<"A","S","_","1">>), Some(StrValue(<<"H","e","r","o">>)), Some(<<"g","o","o","d">>),
         << <<<<"m","i","n","d">>, NumValue(2)>>, <<<<"t","e","x","t">>, StrValue(<<>>)>> >>)

\* a name in Spanish only, no id; the name is one letter off 'Tom B'
CardTommB ==
    Card(Some(DictValue(None, Some(<<"T","o","m","m"," ","B"," ">>), None)), None,
         Some(DictValue(Some(<<"A","l","l","y">>), None, None)), None,
         << <<<<"t","e","x","t">>, DictValue(Some(<<"o","l","d">>), None, None)>> >>)

CardZed == Card(Some(StrValue(<<"Z","e","d">>)), Some(<<"A","S","_","2">>), Some(StrValue(<<"H","e","r","o">>)), None, <<>>)

CardBlank == Card(Some(StrValue(<<" ">>)), Some(<<"A","S","_","3">>), None, Some(<<"e","v","i","l">>), <<>>)

CardSet == {CardSam, CardTommB, CardZed, CardBlank}

\* files of one or two card sets with at most n cards in all
CardFiles(n) ==
    {<<a, b>> : a \in UNION {[1..m -> CardSet] : m \in 0..n},
                b \in UNION {[1..m -> CardSet] : m \in 0..n}}

\* the CSV rows of the pipeline: the rows of Sam and Zed without a realm,
\* and one that gives a gender to 'Ab', whose infobox has none
PipelineRowSet ==
    {r \in RowSet : r.name \in {<<"S","a","m">>, <<"Z","e","d">>} /\ r.realm = Blank.realm}
        \cup {CsvRow(<<"A","b">>, [Blank EXCEPT !.gender = Some(<<"F","e","m","a","l","e">>)])}

PipelineRowLists == UNION {[1..m -> PipelineRowSet] : m \in 0..MaxPipelineRows}

InitPipeline ==
    /\ NoParse
    /\ NoMetw
    /\ NoShape
    /\ pc = "build"
    /\ entities \in BaseBatches
    /\ graph = {}
    /\ i = 0
    /\ last = NoLast
    /\ entity_index = <<>>
    /\ characters = <<>>
    /\ stats = NoStats
    /\ call = NoCall

\* CombinedEnricher.__init__ on the file Step 2 saved: the graph is parsed,
\* the index built on the rows of the name query, the statistics zeroed
LoadGraph ==
    /\ pc = "built"
    /\ \E rows \in Orderings(NameRows(graph)) : entity_index' = build_entity_index(rows)
    /\ stats' = InitCsvStats
    /\ metw_stats' = InitMetwStats
    /\ i' = 0
    /\ last' = NoLast
    /\ pc' = "loaded"
    /\ UNCHANGED <<graph, characters, entities, call, parseVars, shapeVars, cards>>

\* enrich_with_metw up to its loop: the cards of the file are collected
LoadCards ==
    /\ pc = "loaded"
    /\ \E sets \in CardFiles(MaxCards) :
         /\ Len(all_cards(sets)) <= MaxCards
         /\ cards' = all_cards(sets)
         /\ metw_stats' = [metw_stats EXCEPT !.total_cards = Len(all_cards(sets))]
    /\ last' = [op |-> "load_cards", before |-> graph, triples_before |-> Cardinality(graph)]
    /\ i' = 0
    /\ pc' = "metw"
    /\ UNCHANGED <<graph, entity_index, characters, stats, entities, call, parseVars, shapeVars>>

\* one pass of the loop of enrich_with_metw
EnrichCard ==
    /\ pc = "metw"
    /\ i < Len(cards)
    /\ \E card \in {cards[i + 1]} :
         /\ graph' = GraphAdd(graph, CardTriples(entity_index, card, MetwThreshold))
         /\ metw_stats' = IF CardLinked(entity_index, card, MetwThreshold)
                          THEN [metw_stats EXCEPT !.linked_cards = @ + 1]
                          ELSE metw_stats
         /\ last' = [op |-> "card", card |-> card, before |-> graph,
                     triples_before |-> last.triples_before]
    /\ entity_index' = IndexAfterMatch(entity_index, card_name_of(cards[i + 1]),
                          find_best_match(entity_index, card_name_of(cards[i + 1]), MetwThreshold))
    /\ i' = i + 1
    /\ UNCHANGED <<pc, characters, stats, entities, call, parseVars, shapeVars, cards>>

\* the loop is over: the growth of the graph is recorded
MetwDone ==
    /\ pc = "metw"
    /\ i = Len(cards)
    /\ metw_stats' = [metw_stats EXCEPT
                         !.triples_added = Cardinality(graph) - last.triples_before]
    /\ pc' = "metw_done"
    /\ UNCHANGED <<graph, entity_index, characters, i, stats, last, entities, call,
                   parseVars, shapeVars, cards>>

\* enrich_with_csv is called after the cards
LoadCsvAfterCards ==
    /\ pc = "metw_done"
    /\ \E rows \in PipelineRowLists : ReadCsv(rows)

NextPipeline ==
    \/ ProcessEntity
    \/ BuildDone
    \/ LoadGraph
    \/ LoadCards
    \/ EnrichCard
    \/ MetwDone
    \/ LoadCsvAfterCards
    \/ EnrichCsvRow
    \/ CsvDone

SpecPipeline == InitPipeline /\ [][NextPipeline]_vars

-----------------------------------------------------------------------------
(* Specification SpecMatch: find_best_match on one name                    *)

\* display names of resources, two of which collide on the key 'tomb'
NamePool == {<<"S","a","m">>, <<"S","a","l">>, <<"T","o","m"," ","B">>, <<"T","o","m","B">>, <<"A","-","b">>}

\* the schema:name rows of a graph with at most n named resources
NameRowLists(n) ==
    {q \in UNION {[1..m -> NamePool] : m \in 0..n} :
        \A x, y \in 1..Len(q) : x # y => q[x] # q[y]}

QueryNames ==
    {<<"S","a","m">>, <<"S","A","M">>, <<"t","o","m","b">>, <<"T"," ","o","m"," ","B">>, <<"T","o","m"," "," ","B">>, <<"S","a","m","m">>, <<"S","a","x">>, <<"Z","e","d">>,
     <<"a","b">>, <<"A"," ","B">>, <<>>, <<"S","a">>}

Thresholds == {Zero, <<1, 2>>, CsvThreshold, SpouseThreshold, One}

InitMatch ==
    /\ NoParse
    /\ NoMetw
    /\ NoShape
    /\ pc = "match"
    /\ \E q \in NameRowLists(MaxIndexNames) :
         \E rows \in {[n \in 1..Len(q) |-> <<create_uri(q[n], "resource"), Lit(q[n], "en")>>]} :
            /\ graph = {<<rows[n][1], SchemaName, rows[n][2]>> : n \in 1..Len(rows)}
            /\ entity_index = build_entity_index(rows)
            /\ \E name \in QueryNames, threshold \in Thresholds :
                 call = [op |-> "find_best_match", name |-> name, threshold |-> threshold,
                         result |-> None, rows |-> rows]
    /\ characters = <<>>
    /\ i = 0
    /\ stats = NoStats
    /\ last = NoLast
    /\ entities = <<>>

FindBestMatch ==
    /\ pc = "match"
    /\ call.result = None
    /\ call' = [call EXCEPT
                   !.result = Some(find_best_match(entity_index, call.name, call.threshold))]
    /\ UNCHANGED <<pc, graph, entity_index, characters, i, stats, last, entities, parseVars, metwVars, shapeVars>>

NextMatch == FindBestMatch

SpecMatch == InitMatch /\ [][NextMatch]_vars

-----------------------------------------------------------------------------
(* Specification SpecParse: parse_all_pages, run twice on the same pages   *)

Page(title, wikitext, parse, text, pageid, json) ==
    [title |-> title, wikitext |-> wikitext, parse |-> parse, text |-> text,
     pageid |-> pageid, json |-> json]

\* a page as the scraper writes it: the title, and the API's answer under 'json'
ScrapedPage(title, wikitext, pageid) ==
    Page(Some(title), None, None, None, None,
         Some([title |-> None, wikitext |-> None, text |-> None, pageid |-> None,
               parse |-> Some([title |-> Some(title), wikitext |-> Some(wikitext),
                               pageid |-> Some(pageid)])]))

\* an infobox, links in a value and in the body, one piped, one repeated,
\* one to the File namespace
PageFrodo ==
    ScrapedPage(<<"F","r","o","d","o">>,
        << TemplateNode(<<"I","n","f","o","b","o","x"," ","c","h","a","r","a","c","t","e","r"," ">>,
               << TemplateParam(<<" ","n","a","m","e"," ">>, <<TextNode(<<" ","F","r","o","d","o"," ","B"," ">>)>>),
                  TemplateParam(<<" ","r","a","c","e"," ">>,
                      <<TextNode(<<" ">>), WikilinkNode(<<"H","o","b","b","i","t">>, None), TextNode(<<" ">>)>>),
                  TemplateParam(<<"B","i","r","t","h"," ","D","a","t","e">>, <<TextNode(<<"T","A"," ","1">>)>>),
                  TemplateParam(<<"e","m","p","t","y">>, <<TextNode(<<" "," ">>)>>) >>),
           TextNode(<<" ","o","f"," ","t","h","e"," ">>), WikilinkNode(<<"S","h","i","r","e">>, None),
           WikilinkNode(<<"S","a","m">>, Some(<<"S","a","m","w","i","s","e">>)), WikilinkNode(<<"S","a","m">>, None),
           WikilinkNode(<<"F","i","l","e",":","F",".","p","n","g">>, None) >>,
        1)

\* markup without any template, two distinct links
PageEve ==
    Page(Some(<<"E","v","e">>),
         Some(<<TextNode(<<"m","e","t"," ">>), WikilinkNode(<<"S","a","m">>, None), TextNode(<<" ","a","n","d"," ">>),
                WikilinkNode(<<"A","n","n">>, None)>>),
         None, None, Some(2), None)

\* a lower-case infobox after another template; a value made of a comment,
\* one made of a template; one key given twice
PageCit ==
    Page(Some(<<"C","i","t">>), None, None,
         Some(<< TemplateNode(<<"c","i","t","e">>, <<>>),
                 TemplateNode(<<"i","n","f","o","b","o","x"," ","p","l","a","c","e">>,
                     << TemplateParam(<<"n","o","t","e">>, <<CommentNode(<<"x">>)>>),
                        TemplateParam(<<"s","r","c">>, <<TemplateNode(<<"c","i","t","e">>, <<>>)>>),
                        TemplateParam(<<"r","e","a","l","m">>, <<TextNode(<<"G","o","n","d","o","r">>)>>),
                        TemplateParam(<<"R","e","a","l","m"," ">>, <<WikilinkNode(<<"A","r","n","o","r">>, None)>>) >>) >>),
         None, None)

\* no markup under any key
PageNil == Page(Some(<<"N","i","l">>), None, None, None, None, None)

\* no title; an empty 'wikitext' beside a non-empty 'text'
PageShadow == Page(None, Some(<<>>), None, Some(<<TextNode(<<"x">>)>>), None, None)

\* the API's answer alone: title, pageid and markup under 'parse'; a
\* template that is no infobox
PageBob ==
    Page(None, None,
         Some([title |-> Some(<<"B","o","b">>),
               wikitext |-> Some(<<TemplateNode(<<"s","t","u","b">>, <<>>), WikilinkNode(<<"B","o">>, None),
                                   TextNode(<<".">>), WikilinkNode(<<"A","b">>, None)>>),
               pageid |-> Some(3)]),
         None, None, None)

\* a number where the markup is expected
PageNum == Page(Some(<<"N","u","m">>), None, None, Some(NumberValue(<<"5">>)), None, None)

PageSet == {PageFrodo, PageEve, PageCit, PageNil, PageShadow, PageBob, PageNum}

\* the seeds a process may hash strings with
HashSeeds == {0, 1}

InitParse ==
    /\ NoMetw
    /\ NoShape
    /\ pc = "parse"
    /\ pages \in UNION {[1..n -> PageSet] : n \in 1..MaxPages}
    /\ hash_seed \in HashSeeds
    /\ normalized_entities = <<>>
    /\ previous = None
    /\ i = 0
    /\ stats = InitParseStats(Len(pages))
    /\ last = NoLast
    /\ call = NoCall
    /\ graph = {}
    /\ entity_index = <<>>
    /\ characters = <<>>
    /\ entities = <<>>

\* one pass of the loop of parse_all_pages
ParsePage ==
    /\ pc = "parse"
    /\ i < Len(pages)
    /\ \E page_data \in {pages[i + 1]} :
       \E raised \in {parse_page_raises(page_data)} :
       \E entity \in {IF raised THEN None ELSE parse_page(page_data, hash_seed)} :
          /\ normalized_entities' = IF entity = None THEN normalized_entities
                                    ELSE Append(normalized_entities, entity[1])
          /\ stats' = CountPage(stats, entity, LogTitle(page_data, i))
          /\ last' = [op |-> "parse_page", page |-> page_data, before |-> stats,
                      entity |-> entity, raised |-> raised]
    /\ i' = i + 1
    /\ UNCHANGED <<pc, graph, entity_index, characters, entities, call, pages, hash_seed,
                   previous, metwVars, shapeVars>>

\* the loop is over: the records are written to the output file
ParseDone ==
    /\ pc = "parse"
    /\ i = Len(pages)
    /\ pc' = "parsed"
    /\ UNCHANGED <<graph, entity_index, characters, i, stats, last, entities, call,
                   parseVars, metwVars, shapeVars>>

\* the script is started once more, in a new process, on the same input file
ParseAgain ==
    /\ pc = "parsed"
    /\ previous = None
    /\ previous' = Some(normalized_entities)
    /\ hash_seed' \in HashSeeds
    /\ normalized_entities' = <<>>
    /\ stats' = InitParseStats(Len(pages))
    /\ i' = 0
    /\ last' = NoLast
    /\ pc' = "parse"
    /\ UNCHANGED <<graph, entity_index, characters, entities, call, pages, metwVars, shapeVars>>

NextParse == ParsePage \/ ParseDone \/ ParseAgain

SpecParse == InitParse /\ [][NextParse]_vars

-----------------------------------------------------------------------------
(* Specification SpecKey: normalize_key on a raw key, then on its result   *)

KeyWords == {<<"b","i","r","t","h">>, <<"d","a","t","e">>, <<"h","a","i","r">>, <<"e","y","e">>, <<"x">>}

\* one word, or two words joined by a space or an underscore
RawKeys ==
    KeyWords \cup {a \o sep \o b : a \in KeyWords, b \in KeyWords, sep \in {<<" ">>, <<"_">>}}

\* a key as written, with its first letter or all its letters in upper case
KeyCases(k) == {k, Cased(k, {1}), Cased(k, 1..Len(k))}

InitKey ==
    /\ NoParse
    /\ NoMetw
    /\ NoShape
    /\ pc = "key"
    /\ \E k \in RawKeys, l \in 0..MaxPad, r \in 0..MaxPad :
         \E cased \in KeyCases(k) :
            call = [op |-> "normalize_key",
                    raw_key |-> Spaces(l) \o cased \o Spaces(r),
                    result |-> None,
                    again |-> None]
    /\ graph = {}
    /\ i = 0
    /\ last = NoLast
    /\ entities = <<>>
    /\ entity_index = <<>>
    /\ characters = <<>>
    /\ stats = NoStats

NormalizeKey ==
    /\ pc = "key"
    /\ call.result = None
    /\ call' = [call EXCEPT !.result = Some(normalize_key(call.raw_key))]
    /\ UNCHANGED <<pc, graph, i, last, entities, entity_index, characters, stats, parseVars, metwVars, shapeVars>>

\* the normalized key is normalized once more
NormalizeKeyAgain ==
    /\ pc = "key"
    /\ call.result # None
    /\ call.again = None
    /\ call' = [call EXCEPT !.again = Some(normalize_key(call.result[1]))]
    /\ UNCHANGED <<pc, graph, i, last, entities, entity_index, characters, stats, parseVars, metwVars, shapeVars>>

NextKey == NormalizeKey \/ NormalizeKeyAgain

SpecKey == InitKey /\ [][NextKey]_vars

-----------------------------------------------------------------------------
(* Step 3: SHACL shapes generated from the normalized entities             *)

SchemaBirthPlace == Uri("SCHEMA", <<"b","i","r","t","h","P","l","a","c","e">>)

SchemaPerson == Uri("SCHEMA", <<"P","e","r","s","o","n">>)

SchemaPlace == Uri("SCHEMA", <<"P","l","a","c","e">>)

\* create_character_shape: the counts a constraint must exceed
GenderCutoff == 100

RaceCutoff == 100

BirthPlaceCutoff == 50

\* the entity type create_character_shape and generate_shapes look up
CharacterType == <<"i","n","f","o","b","o","x"," ","c","h","a","r","a","c","t","e","r">>

infer_datatype(value, field) ==
    IF Contains(Lower(field), <<"d","a","t","e">>) THEN "xsd:string"
    ELSE IF Lower(field) \in {<<"a","g","e">>, <<"h","e","i","g","h","t">>}
         THEN IF IntParses(value) THEN "xsd:integer" ELSE "xsd:string"
    ELSE "xsd:string"

\* d.get(key, 0)
GetCount(d, key) == IF key \in DOMAIN d THEN d[key] ELSE 0

\* d[key] += 1 on a defaultdict(int), for every key of keys
Increment(d, keys) ==
    [k \in DOMAIN d \cup keys |-> IF k \in keys THEN GetCount(d, k) + 1 ELSE d[k]]

\* the loop body of analyze_entities on property_usage; the key is the pair
\* of entity.get('type') and the field
UsageAfter(usage, entity) ==
    IF entity.infobox = None THEN usage
    ELSE LET parameters == entity.infobox[1].parameters
         IN  Increment(usage, {<<entity.type, parameters[n].key>> : n \in 1..Len(parameters)})

\* the loop body of analyze_entities on property_datatypes
DatatypesAfter(datatypes, entity) ==
    IF entity.infobox = None THEN datatypes
    ELSE LET parameters == entity.infobox[1].parameters
             typed == {n \in 1..Len(parameters) : parameters[n].cleaned # <<>>}
             fields == {parameters[n].key : n \in typed}
         IN  [f \in DOMAIN datatypes \cup fields |->
                 (IF f \in DOMAIN datatypes THEN datatypes[f] ELSE {})
                 \cup {infer_datatype(parameters[n].cleaned, f) :
                           n \in {m \in typed : parameters[m].key = f}}]

\* a node shape: its target class, label and comment
NodeShape(shape, targetClass, label, comment) ==
    [shape |-> shape, targetClass |-> targetClass, label |-> label, comment |-> comment]

\* a property constraint of a shape; "" and <<>> are the facets not stated
PropertyShape(shape, path, minCount, nodeKind, datatype, values) ==
    [shape |-> shape, path |-> path, minCount |-> minCount, nodeKind |-> nodeKind,
     datatype |-> datatype, values |-> values]

create_gender_list == <<Lit(<<"M","a","l","e">>, ""), Lit(<<"F","e","m","a","l","e">>, ""), Lit(<<"U","n","k","n","o","w","n">>, "")>>

GenderConstraint ==
    PropertyShape("CharacterShape", SchemaGender, None, "", "xsd:string", create_gender_list)

RaceConstraint == PropertyShape("CharacterShape", PropRace, None, "IRIOrLiteral", "", <<>>)

BirthPlaceConstraint ==
    PropertyShape("CharacterShape", SchemaBirthPlace, None, "IRIOrLiteral", "", <<>>)

\* self.property_usage.get('infobox character', {}).get(field, 0)
char_props(usage, field) == GetCount(usage, <<Some(CharacterType), field>>)

\* total_characters only feeds a local that is never read
create_character_shape(usage, total_characters) ==
    [shapes |-> {NodeShape("CharacterShape", SchemaPerson, "Character Shape",
                           "Validation shape for Tolkien Gateway characters")},
     properties |->
        {PropertyShape("CharacterShape", SchemaName, Some(1), "Literal", "", <<>>)}
        \cup (IF char_props(usage, <<"g","e","n","d","e","r">>) > GenderCutoff THEN {GenderConstraint} ELSE {})
        \cup (IF char_props(usage, <<"r","a","c","e">>) > RaceCutoff THEN {RaceConstraint} ELSE {})
        \cup (IF char_props(usage, <<"b","i","r","t","h","P","l","a","c","e">>) > BirthPlaceCutoff
              THEN {BirthPlaceConstraint} ELSE {})]

create_place_shape ==
    [shapes |-> {NodeShape("PlaceShape", SchemaPlace, "Place Shape", "")},
     properties |-> {PropertyShape("PlaceShape", SchemaName, Some(1), "Literal", "", <<>>)}]

create_thing_shape ==
    [shapes |-> {NodeShape("ThingShape", SchemaThing, "Thing Shape", "")},
     properties |-> {PropertyShape("ThingShape", SchemaName, Some(1), "", "", <<>>)}]

-----------------------------------------------------------------------------
(* Specification SpecShape: Step 3 on the records Step 1 wrote for a       *)
(* corpus of infobox pages                                                 *)

TemplateNames == {<<"I","n","f","o","b","o","x"," ","c","h","a","r","a","c","t","e","r">>, <<"i","n","f","o","b","o","x"," ","c","h","a","r","a","c","t","e","r">>}

ShapePage(template_name, params) ==
    Page(Some(<<"P">>), Some(<<TemplateNode(template_name, params)>>), None, None, None, None)

\* gender, race, birth place and height
FullParams ==
    << TemplateParam(<<"g","e","n","d","e","r">>, <<TextNode(<<"M","a","l","e">>)>>),
       TemplateParam(<<"r","a","c","e">>, <<WikilinkNode(<<"H","o","b","b","i","t">>, None)>>),
       TemplateParam(<<"b","i","r","t","h"," ","p","l","a","c","e">>, <<TextNode(<<"S","h","i","r","e">>)>>),
       TemplateParam(<<"h","e","i","g","h","t">>, <<TextNode(<<"4">>)>>) >>

\* gender alone
GenderParams == << TemplateParam(<<"G","e","n","d","e","r">>, <<TextNode(<<"m","a","l","e">>)>>) >>

\* the pages of the second kind: an infobox with a gender, or no infobox
OtherPages == {ShapePage(b, GenderParams) : b \in TemplateNames} \cup {PageEve}

\* a corpus has as many records of the first kind as a cutoff, or more
CorpusSizes == {c + d : c \in {BirthPlaceCutoff, GenderCutoff}, d \in 0..MaxOver}

Copies(x, n) == [k \in 1..n |-> x]

\* main up to generate_shapes: the entities are read from the file Step 1 wrote
InitShape ==
    /\ NoParse
    /\ NoMetw
    /\ pc = "analyze"
    /\ \E a \in TemplateNames, other \in OtherPages, n \in CorpusSizes, m \in 0..MaxOther :
         \E full \in {parse_page(ShapePage(a, FullParams), 0)[1]} :
         \E part \in {parse_page(other, 0)[1]} :
             entities = Copies(full, n) \o Copies(part, m)
    /\ property_usage = <<>>
    /\ property_datatypes = <<>>
    /\ shape_graph = [shapes |-> {}, properties |-> {}]
    /\ i = 0
    /\ graph = {}
    /\ last = NoLast
    /\ entity_index = <<>>
    /\ characters = <<>>
    /\ stats = NoStats
    /\ call = NoCall

\* one pass of the loop of analyze_entities
AnalyzeEntity ==
    /\ pc = "analyze"
    /\ i < Len(entities)
    /\ property_usage' = UsageAfter(property_usage, entities[i + 1])
    /\ property_datatypes' = DatatypesAfter(property_datatypes, entities[i + 1])
    /\ i' = i + 1
    /\ UNCHANGED <<pc, graph, entity_index, characters, stats, last, entities, call,
                   parseVars, metwVars, shape_graph>>

\* generate_shapes after analyze_entities: the three shapes are created
CreateShapes ==
    /\ pc = "analyze"
    /\ i = Len(entities)
    /\ \E character_count \in
            {Cardinality({n \in 1..Len(entities) : entities[n].type = Some(CharacterType)})} :
       \E character \in {create_character_shape(property_usage, character_count)} :
           shape_graph' =
               [shapes |-> character.shapes \cup create_place_shape.shapes
                               \cup create_thing_shape.shapes,
                properties |-> character.properties \cup create_place_shape.properties
                                   \cup create_thing_shape.properties]
    /\ pc' = "shaped"
    /\ UNCHANGED <<graph, entity_index, characters, i, stats, last, entities, call,
                   parseVars, metwVars, property_usage, property_datatypes>>

NextShape == AnalyzeEntity \/ CreateShapes

SpecShape == InitShape /\ [][NextShape]_vars

-----------------------------------------------------------------------------
(* Claims about the RDF generator (SpecBuild, SpecLiteral)                 *)

\* the entities generate_from_file has processed so far
Processed == {entities[n] : n \in 1..i}

ParametersOf(e) ==
    IF e.infobox = None THEN {}
    ELSE {e.infobox[1].parameters[n] : n \in 1..Len(e.infobox[1].parameters)}

ResourceOf(e) == create_uri(e.entity_id, "resource")

GenderResult == call.result[1]

GenderCall ==
    /\ pc = "literal"
    /\ call.op = "create_typed_literal"
    /\ call.field = <<"g","e","n","d","e","r">>
    /\ call.result # None

\* C6: a gender literal is one of "Male", "Female", "Unknown", plain (no
\* language tag, no datatype); it is "Male" (resp. "Female") exactly when the
\* trimmed value is 'male' (resp. 'female') whatever its case, else "Unknown".
C6_GenderClosedSet ==
    GenderCall =>
        /\ GenderResult.k = "lit" /\ GenderResult.lang = "" /\ GenderResult.dt = ""
        /\ GenderResult.v \in {<<"M","a","l","e">>, <<"F","e","m","a","l","e">>, <<"U","n","k","n","o","w","n">>}
        /\ GenderResult.v = <<"M","a","l","e">> <=> call.word = <<"m","a","l","e">>
        /\ GenderResult.v = <<"F","e","m","a","l","e">> <=> call.word = <<"f","e","m","a","l","e">>

\* a padded, mixed-case 'female' became the plain literal "Female"
C6_Witness ==
    /\ GenderCall
    /\ call.value = <<" ","f","E","m","a","l","e"," ">>
    /\ GenderResult = Lit(<<"F","e","m","a","l","e">>, "")

-----------------------------------------------------------------------------
(* Claims about the reconciliation engine (Spec, SpecMatch)                *)

\* the predicate each enrichable CSV attribute is written under
EnrichablePredicates ==
    {SchemaBirthDate, SchemaDeathDate, SchemaGender, PropHairColor,
     SchemaHeight, PropRace, PropRealm, SchemaSpouse}

\* the last loop iteration matched its row to an entity and merged it
CsvMatched == pc \in {"csv", "enriched"} /\ last.op = "csv_match"

\* C1: first write wins.  For a matched row and every enrichable predicate p,
\* facts (e, p, _) are added only if the graph held none: if e had a fact
\* under p, the facts (e, p, _) are the same before and after the call.
C1_FirstWriteWins ==
    CsvMatched =>
        \A p \in EnrichablePredicates :
            Objects(last.before, last.entity[1], p) # {} =>
                Objects(graph, last.entity[1], p) = Objects(last.before, last.entity[1], p)

\* a row with a conflicting birth date left the entity's birth date alone
C1_Witness ==
    /\ CsvMatched
    /\ last.row.birth = Some(<<"T","A"," ","9">>)
    /\ last.entity = Some(create_uri(<<"T","o","m"," ","B">>, "resource"))
    /\ Objects(last.before, last.entity[1], SchemaBirthDate) = {Lit(<<"T","A"," ","1">>, "en")}
    /\ Objects(graph, last.entity[1], SchemaBirthDate) = {Lit(<<"T","A"," ","1">>, "en")}
    /\ Objects(graph, last.entity[1], PropHairColor) = {Lit(<<"b","r","o","w","n">>, "en")}

MatchCall == pc = "match" /\ call.op = "find_best_match" /\ call.result # None

ExactKey == Lower(call.name)

NoSpaceKey == RemoveChar(Lower(call.name), " ")

BothExactMiss ==
    ExactKey \notin IndexKeys(entity_index) /\ NoSpaceKey \notin IndexKeys(entity_index)

\* C3: an exact lowercase key hit returns that key's entity at confidence
\* 1.0; failing that, a lowercase-no-spaces key hit returns that key's entity
\* at confidence 1.0; whatever the fuzzy candidates and the threshold are.
C3_MatchingPriority ==
    MatchCall =>
        /\ ExactKey \in IndexKeys(entity_index) =>
               call.result[1] = Match(Some(IndexGet(entity_index, ExactKey)), One)
        /\ (ExactKey \notin IndexKeys(entity_index) /\ NoSpaceKey \in IndexKeys(entity_index)) =>
               call.result[1] = Match(Some(IndexGet(entity_index, NoSpaceKey)), One)

\* the name missed as written, hit without its spaces, and a fuzzy candidate
\* reached the threshold all the same
C3_Witness ==
    /\ MatchCall
    /\ call.name = <<"T"," ","o","m"," ","B">>
    /\ call.threshold = CsvThreshold
    /\ ExactKey \notin IndexKeys(entity_index)
    /\ \E n \in 1..Len(entity_index) :
           FracGeq(similarity_score(call.name, entity_index[n][1]), call.threshold)
    /\ call.result[1] = Match(Some(create_uri(<<"T","o","m","B">>, "resource")), One)

ScoreAt(n) == similarity_score(call.name, entity_index[n][1])

\* the first key, in index order, whose ratio to the name is maximal
BestKeys ==
    {n \in 1..Len(entity_index) :
        /\ \A m \in 1..Len(entity_index) : FracGeq(ScoreAt(n), ScoreAt(m))
        /\ \A m \in 1..(n - 1) : FracLess(ScoreAt(m), ScoreAt(n))}

\* C4: when both exact lookups miss, a match is the entity of the first key
\* of maximal ratio, reported with that ratio, and only if the ratio reaches
\* the threshold; it is returned whenever that ratio reaches the threshold
\* and is not zero; when no key reaches the threshold the result is
\* (no match, 0.0).
C4_FuzzyAcceptance ==
    (MatchCall /\ BothExactMiss) =>
        /\ call.result[1].matched # None =>
               \E n \in BestKeys :
                   /\ call.result[1] = Match(Some(entity_index[n][2]), ScoreAt(n))
                   /\ FracGeq(ScoreAt(n), call.threshold)
        /\ (\A n \in 1..Len(entity_index) : FracLess(ScoreAt(n), call.threshold)) =>
               call.result[1] = Match(None, Zero)
        /\ (\E n \in BestKeys : FracGeq(ScoreAt(n), call.threshold) /\ FracLess(Zero, ScoreAt(n))) =>
               call.result[1].matched # None

\* two keys of different entities tie at the best ratio: the first one wins
C4_Witness ==
    /\ MatchCall /\ BothExactMiss
    /\ call.name = <<"S","a","x">>
    /\ call.threshold = <<1, 2>>
    /\ Len(entity_index) = 2
    /\ FracEq(ScoreAt(1), ScoreAt(2))
    /\ entity_index[1][2] # entity_index[2][2]
    /\ call.result[1] = Match(Some(entity_index[1][2]), <<2, 3>>)

\* only the height column of the row holds a value
OnlyHeight(row) ==
    /\ clean_value(row.height) # None
    /\ \A f \in CsvFields \ {"height"} : clean_value(row[f]) = None

ScoreFacts(g, e) == {t \in g : t[1] = e /\ t[2] = PropCsvMatchScore}

\* C5: a matched row leaves the provenance fact on the entity; a match-score
\* fact is added iff the confidence is below 1.0; a row matched at 1.0 with
\* height as its only value, on an entity without height, adds exactly one
\* height literal and no match-score fact.
C5_ProvenanceAndScore ==
    CsvMatched =>
        /\ <<last.entity[1], SchemaIsBasedOn, CsvProvenance>> \in graph
        /\ FracLess(last.score, One) =>
               /\ <<last.entity[1], PropCsvMatchScore,
                     NumLit(last.score[1], last.score[2], "float")>> \in graph
               /\ ScoreFacts(graph, last.entity[1]) \ ScoreFacts(last.before, last.entity[1])
                     \subseteq {<<last.entity[1], PropCsvMatchScore,
                                  NumLit(last.score[1], last.score[2], "float")>>}
        /\ ~FracLess(last.score, One) =>
               ScoreFacts(graph, last.entity[1]) = ScoreFacts(last.before, last.entity[1])
        /\ (/\ last.score = One
            /\ OnlyHeight(last.row)
            /\ Objects(last.before, last.entity[1], SchemaHeight) = {}) =>
               /\ {t \in graph \ last.before : t[2] = SchemaHeight}
                     = {<<last.entity[1], SchemaHeight, Lit(Strip(last.row.height[1]), "en")>>}
               /\ {t \in graph \ last.before : t[2] = PropCsvMatchScore} = {}
               /\ graph \ last.before \subseteq
                     {<<last.entity[1], SchemaHeight, Lit(Strip(last.row.height[1]), "en")>>,
                      <<last.entity[1], SchemaIsBasedOn, CsvProvenance>>}

\* the height-only row matched exactly and added its one height literal,
\* after a fuzzy-matched row had left a match score on another entity
C5_Witness ==
    /\ CsvMatched
    /\ last.score = One
    /\ last.row.name = <<"T","o","m"," ","B">>
    /\ OnlyHeight(last.row)
    /\ graph \ last.before =
          {<<last.entity[1], SchemaHeight, Lit(<<"4","f","t">>, "en")>>,
           <<last.entity[1], SchemaIsBasedOn, CsvProvenance>>}
    /\ <<create_uri(<<"S","a","m">>, "resource"), PropCsvMatchScore, NumLit(6, 7, "float")>> \in graph

\* the index keys a display name registers
NameKeys(name) ==
    {Lower(name), RemoveChar(Lower(name), " "),
     RemoveChar(RemoveChar(RemoveChar(Lower(name), "-"), "_"), ".")}

\* the rows of the name query that register key, in the order they were read
Registering(key) ==
    {n \in 1..Len(call.rows) : key \in NameKeys(TermStr(call.rows[n][2]))}

\* C21: index build.  Every (resource, display name) fact of the loaded
\* graph has its three keys in the index; each key maps to a resource with a
\* display name producing it, and of several such resources to the one
\* registered last.
C21_IndexBuild ==
    pc = "match" =>
        /\ \A t \in graph :
               t[2] = SchemaName => NameKeys(TermStr(t[3])) \subseteq IndexKeys(entity_index)
        /\ \A key \in IndexKeys(entity_index) :
               /\ Registering(key) # {}
               /\ \A n \in Registering(key) :
                      (\A m \in Registering(key) : m <= n) =>
                          IndexGet(entity_index, key) = call.rows[n][1]

\* 'TomB' is read before 'Tom B': the key 'tomb' maps to the resource of
\* 'Tom B', the key 'tom b' is there as well
C21_Witness ==
    /\ pc = "match"
    /\ Len(call.rows) = 2
    /\ call.rows[1][2] = Lit(<<"T","o","m","B">>, "en")
    /\ call.rows[2][2] = Lit(<<"T","o","m"," ","B">>, "en")
    /\ IndexGet(entity_index, <<"t","o","m","b">>) = create_uri(<<"T","o","m"," ","B">>, "resource")
    /\ <<"t","o","m"," ","b">> \in IndexKeys(entity_index)
    /\ Len(entity_index) = 2

-----------------------------------------------------------------------------
(* Claims about the infobox parser (SpecParse)                             *)

\* the loop of parse_all_pages has just handled a page
ParsedPage == pc = "parse" /\ last.op = "parse_page"

\* the markup texts a page holds: under 'wikitext', under 'parse' and under 'text'
MarkupTexts(page_data) ==
    LET body == PageBody(page_data)
        held == {body.wikitext, ParseObj(body).wikitext, body.text} \ {None}
    IN  {wt[1] : wt \in {v \in held : ~IsNumberValue(v[1])}}

HasMarkupText(page_data) == \E wt \in MarkupTexts(page_data) : Render(wt) # <<>>

HasInfoboxTemplate(page_data) ==
    \E wt \in MarkupTexts(page_data) : \E n \in 1..Len(Nodes(wt)) :
        /\ Nodes(wt)[n].t = "template"
        /\ StartsWith(Lower(Strip(Nodes(wt)[n].s)), <<"i","n","f","o","b","o","x">>)

\* C8: no entry of the attribute map of any record parse_page returned has
\* an empty cleaned text; a parameter whose value cleans to the empty string
\* is absent from the record.
C8_NoEmptyCleanedValue ==
    \A n \in 1..Len(normalized_entities) :
        normalized_entities[n].infobox # None =>
            \A m \in 1..Len(normalized_entities[n].infobox[1].parameters) :
                normalized_entities[n].infobox[1].parameters[m].cleaned # <<>>

\* C9: for a document that has non-empty markup text but no template whose
\* name starts, in any case, with 'infobox', parse_page produces a record
\* with no class tag and no attributes, and parse_all_pages counts the
\* document as successful and as without infobox, not as failed.
C9_NoInfoboxIsSuccessful ==
    (/\ ParsedPage
     /\ HasMarkupText(last.page)
     /\ ~HasInfoboxTemplate(last.page)) =>
        /\ last.entity # None
        /\ last.entity[1].type = None
        /\ last.entity[1].infobox = None
        /\ normalized_entities # <<>>
        /\ normalized_entities[Len(normalized_entities)] = last.entity[1]
        /\ stats.successful = last.before.successful + 1
        /\ stats.without_infobox = last.before.without_infobox + 1
        /\ stats.with_infobox = last.before.with_infobox
        /\ stats.failed = last.before.failed
        /\ stats.failed_pages = last.before.failed_pages

\* C10: normalization is deterministic: a second run of parse_all_pages on
\* the same pages yields the same records as the first, the order of every
\* list-valued field included.
C10_SecondRunYieldsSameRecords ==
    (pc = "parsed" /\ previous # None) => normalized_entities = previous[1]

\* C11: the Key Normalizer is idempotent: normalizing a normalized key
\* gives the same key again.
C11_NormalizeKeyIdempotent ==
    (pc = "key" /\ call.again # None) => call.again = call.result

\* C12: every subject resource URI belongs to exactly one record: in a
\* batch of records with pairwise distinct entity ids, no two processed
\* records get the same resource URI, so a resource carries the label of
\* one record only.
C12_DistinctIdsDistinctResources ==
    pc \in {"build", "built"} =>
        \A x, y \in 1..i :
            entities[x].entity_id # entities[y].entity_id =>
                /\ create_uri(entities[x].entity_id, "resource")
                      # create_uri(entities[y].entity_id, "resource")
                /\ Lit(entities[y].title, "en")
                      \notin Objects(graph, create_uri(entities[x].entity_id, "resource"),
                                     RdfsLabel)

\* the keyword table of the claim, in its declared order, with the class of
\* each keyword
ClassKeywords ==
    << <<<<"c","h","a","r","a","c","t","e","r">>, <<"P","e","r","s","o","n">>>>, <<<<"i","n","f","o","b","o","x"," ","c","h","a","r","a","c","t","e","r">>, <<"P","e","r","s","o","n">>>>,
       <<<<"p","l","a","c","e">>, <<"P","l","a","c","e">>>>, <<<<"l","o","c","a","t","i","o","n">>, <<"P","l","a","c","e">>>>,
       <<<<"a","r","t","i","f","a","c","t">>, <<"T","h","i","n","g">>>>, <<<<"i","t","e","m">>, <<"T","h","i","n","g">>>>,
       <<<<"e","v","e","n","t">>, <<"E","v","e","n","t">>>>, <<<<"o","r","g","a","n","i","z","a","t","i","o","n">>, <<"O","r","g","a","n","i","z","a","t","i","o","n">>>> >>

\* the class of the first keyword of the table contained in the lower-cased
\* tag, Thing when there is no tag or no keyword in it
ExpectedClass(tag) ==
    LET hits == IF tag = None THEN {}
                ELSE {n \in 1..Len(ClassKeywords) :
                         Contains(Lower(tag[1]), ClassKeywords[n][1])}
    IN  IF hits = {} THEN Uri("SCHEMA", <<"T","h","i","n","g">>)
        ELSE Uri("SCHEMA", ClassKeywords[CHOOSE n \in hits : \A m \in hits : n <= m][2])

\* C13: determine_class returns the class of the first keyword, in the
\* declared table order, contained in the lower-cased class tag, and Thing
\* when the tag is absent or holds no keyword; each processed record has
\* exactly one type fact on its resource, that class.
C13_ClassDispatch ==
    pc \in {"build", "built"} =>
        \A e \in Processed :
            /\ determine_class(e.type) = ExpectedClass(e.type)
            /\ Objects(graph, ResourceOf(e), RdfType) = {ExpectedClass(e.type)}
            /\ ExpectedClass(e.type) \in
                  {Uri("SCHEMA", c) : c \in {<<"P","e","r","s","o","n">>, <<"P","l","a","c","e">>, <<"E","v","e","n","t">>,
                                             <<"O","r","g","a","n","i","z","a","t","i","o","n">>, <<"T","h","i","n","g">>}}

\* C14: parse_page yields no record only if none of the flat wikitext
\* field, the nested parse-result wikitext and the generic text field holds
\* non-empty markup text; whenever one of them does a record is produced,
\* and a document with none is counted as failed.
C14_TriesAllShapes ==
    ParsedPage =>
        /\ last.entity = None <=> ~HasMarkupText(last.page)
        /\ ~HasMarkupText(last.page) =>
              /\ stats.failed = last.before.failed + 1
              /\ Len(stats.failed_pages) = Len(last.before.failed_pages) + 1
              /\ stats.successful = last.before.successful

RECURSIVE HistogramSum(_)
HistogramSum(types) ==
    IF types = <<>> THEN 0 ELSE Head(types)[2] + HistogramSum(Tail(types))

\* C15: batch accounting of parse_all_pages: a failure on one document does
\* not stop the batch, every document is processed, and on completion
\* successful + failed = total_pages, the failed-titles list has `failed`
\* entries, with_infobox + without_infobox = successful, and the class-tag
\* histogram sums to with_infobox.
C15_BatchAccounting ==
    /\ (ParsedPage /\ last.entity = None) =>
           /\ stats.failed = last.before.failed + 1
           /\ stats.failed_pages = Append(last.before.failed_pages, LogTitle(last.page, i - 1))
    /\ pc \in {"parse", "parsed"} =>
           /\ stats.total_pages = Len(pages)
           /\ stats.successful + stats.failed = i
           /\ Len(normalized_entities) = stats.successful
    /\ pc = "parsed" =>
           /\ i = Len(pages)
           /\ stats.successful + stats.failed = stats.total_pages
           /\ Len(stats.failed_pages) = stats.failed
           /\ stats.with_infobox + stats.without_infobox = stats.successful
           /\ HistogramSum(stats.infobox_types) = stats.with_infobox

\* a batch is complete in which parse_page raised on the first page, which
\* is listed as failed, and the last page gave a record with an infobox
C15_Witness ==
    /\ pc = "parsed"
    /\ Len(pages) = MaxPages
    /\ pages[1] = PageNum
    /\ stats.failed >= 1
    /\ stats.failed_pages[1] = <<"N","u","m">>
    /\ stats.with_infobox >= 1
    /\ last.op = "parse_page" /\ last.entity # None /\ last.entity[1].infobox # None

-----------------------------------------------------------------------------
(* Claims about the CSV run (Spec; C24 and C28 under SpecRerun)            *)

\* the loop of enrich_with_csv has handled a row
CsvHandled == pc \in {"csv", "enriched"} /\ last.op # "none"

\* C16: when the name of a CSV row matches no entity, enrich_with_csv leaves
\* the graph unchanged for that row, increments the no-match counter by
\* exactly one, changes no other counter and goes on to the next row.
C16_NoMatchFrame ==
    (/\ CsvHandled
     /\ Strip(last.row.name) # <<>>
     /\ find_best_match(entity_index, Strip(last.row.name), CsvThreshold).matched = None) =>
        /\ graph = last.before
        /\ stats.no_matches = last.stats_before.no_matches + 1
        /\ stats = [last.stats_before EXCEPT !.no_matches = stats.no_matches]
        /\ i >= 1 /\ characters[i] = last.row

\* the first of two rows, 'Zed', matched no entity of a non-empty graph
C16_Witness ==
    /\ pc = "csv"
    /\ last.op = "csv_no_match"
    /\ last.row.name = <<"Z","e","d">>
    /\ i = 1 /\ Len(characters) = 2
    /\ graph = last.before /\ graph # {}
    /\ stats.no_matches = 1

\* the predicate each CSV column is written under
FieldPredicate ==
    [birth |-> SchemaBirthDate, death |-> SchemaDeathDate,
     gender |-> SchemaGender, hair |-> PropHairColor,
     height |-> SchemaHeight, race |-> PropRace,
     realm |-> PropRealm, spouse |-> SchemaSpouse]

\* row j of the run was matched to the entity the last row was merged into
MatchedSame(j) ==
    /\ Strip(characters[j].name) # <<>>
    /\ find_best_match(entity_index, Strip(characters[j].name), CsvThreshold).matched
           = last.entity

\* C18: earlier writes take precedence.  When the row just merged and an
\* earlier row of the run match the same entity and both carry a value for
\* an attribute, the later row contributes no fact under the attribute's
\* predicate: the facts there are those the graph held before the later row.
C18_EarlierRowWins ==
    CsvMatched =>
        \A j \in 1..(i - 1) :
            MatchedSame(j) =>
                \A f \in CsvFields :
                    (/\ clean_value(characters[j][f]) # None
                     /\ clean_value(last.row[f]) # None) =>
                        Objects(graph, last.entity[1], FieldPredicate[f])
                            = Objects(last.before, last.entity[1], FieldPredicate[f])

\* the objects the last merge added to its entity under predicate p
AddedObjects(p) == Objects(graph, last.entity[1], p) \ Objects(last.before, last.entity[1], p)

\* C23: multi-valued CSV attributes.  For a matched entity without a race
\* (realm) fact, the value is split on commas and trimmed, and each non-empty
\* token yields its own fact; a realm token yields a reference fact and a
\* label fact, so as many realm references are added as realm labels.
C23_MultiValued ==
    CsvMatched =>
        /\ (/\ Objects(last.before, last.entity[1], PropRace) = {}
            /\ clean_value(last.row.race) # None) =>
               AddedObjects(PropRace) = {Lit(tok, "en") : tok \in Tokens(clean_value(last.row.race)[1])}
        /\ (/\ Objects(last.before, last.entity[1], PropRealm) = {}
            /\ clean_value(last.row.realm) # None) =>
               /\ \A tok \in Tokens(clean_value(last.row.realm)[1]) :
                      /\ Uri("RESOURCE", ReplaceChar(tok, " ", "_")) \in AddedObjects(PropRealm)
                      /\ Lit(tok, "en") \in Objects(graph, last.entity[1], PropRealmName)
               /\ \A o \in AddedObjects(PropRealm) : ~IsLiteral(o)
               /\ Cardinality(AddedObjects(PropRealm)) = Cardinality(AddedObjects(PropRealmName))

\* C24: spouse resolution.  For a matched entity without a spouse fact and
\* a row with a spouse value, exactly one spouse fact is added: its object is
\* the resource find_best_match returns at threshold 0.9 if there is one,
\* else the resource named by the spouse value with '_' for each space.
C24_SpouseResolution ==
    (/\ CsvMatched
     /\ Objects(last.before, last.entity[1], SchemaSpouse) = {}
     /\ clean_value(last.row.spouse) # None) =>
        \E found \in {find_best_match(entity_index, clean_value(last.row.spouse)[1], <<9, 10>>)} :
            /\ Objects(graph, last.entity[1], SchemaSpouse) =
                  {IF found.matched # None THEN found.matched[1]
                   ELSE Uri("RESOURCE", ReplaceChar(clean_value(last.row.spouse)[1], " ", "_"))}
            /\ Cardinality({t \in graph \ last.before : t[2] = SchemaSpouse}) = 1

\* Sam's row names the spouse ' tom b': the fact points to the resource of
\* 'Tom B' found in the index, not to a resource named 'tom_b'
C24_Witness ==
    /\ CsvMatched
    /\ last.row.spouse = Some(<<" ","t","o","m"," ","b">>)
    /\ last.entity = Some(create_uri(<<"S","a","m">>, "resource"))
    /\ Objects(last.before, last.entity[1], SchemaSpouse) = {}
    /\ Objects(graph, last.entity[1], SchemaSpouse) = {create_uri(<<"T","o","m"," ","B">>, "resource")}
    /\ create_uri(<<"T","o","m"," ","B">>, "resource") # Uri("RESOURCE", <<"t","o","m","_","b">>)

\* a CSV value that stands for no value: missing, empty, whitespace only,
\* '-', ',' or 'none'
Placeholder(value) ==
    \/ value = None
    \/ Strip(value[1]) = <<>>
    \/ value[1] \in {<<"-">>, <<",">>, <<"n","o","n","e">>}

\* C26: placeholder values are absent.  A placeholder field of a merged row
\* adds no fact and is not counted as enriched; and when an earlier row had
\* a placeholder for an attribute the entity has no fact under, a later row
\* matching the same entity with a real value has its value added.
C26_PlaceholdersAbsent ==
    CsvMatched =>
        \A f \in CsvFields :
            /\ Placeholder(last.row[f]) =>
                   /\ AddedObjects(FieldPredicate[f]) = {}
                   /\ f = "realm" => AddedObjects(PropRealmName) = {}
                   /\ stats.enriched_fields[f] = last.stats_before.enriched_fields[f]
            /\ (/\ ~Placeholder(last.row[f])
                /\ Objects(last.before, last.entity[1], FieldPredicate[f]) = {}
                /\ \E j \in 1..(i - 1) : MatchedSame(j) /\ Placeholder(characters[j][f])) =>
                   AddedObjects(FieldPredicate[f]) # {}

\* C27: when enrich_with_csv has completed, exact_matches + fuzzy_matches +
\* no_matches equals total_characters; and the triples_added counter grows
\* with the graph at every step of the CSV pass, so that it ends as the
\* growth of the graph during the pass.
C27_CsvAccounting ==
    /\ [](pc = "enriched" =>
             stats.exact_matches + stats.fuzzy_matches + stats.no_matches
                 = stats.total_characters)
    /\ [][stats'.triples_added - stats.triples_added
              = Cardinality(graph') - Cardinality(graph)]_vars

\* one of the two exact lookups of find_best_match hits for the name
ExactHit(name) ==
    \/ Lower(name) \in IndexKeys(entity_index)
    \/ RemoveChar(Lower(name), " ") \in IndexKeys(entity_index)

\* the rows read so far whose name is not blank and hits an exact key
ExactRows ==
    {n \in 1..i : /\ Strip(characters[n].name) # <<>>
                  /\ ExactHit(Strip(characters[n].name))}

\* C28: a fuzzy match never reports confidence 1.0.  The confidence of a
\* matched row is 1.0 if and only if one of the two exact key lookups hit;
\* exact_matches counts exactly the rows that hit an exact key; and an
\* entity matched otherwise holds the match-score fact of that match, whose
\* score is below 1.0.
C28_FuzzyNeverOne ==
    /\ CsvMatched =>
           /\ last.score = One <=> ExactHit(Strip(last.row.name))
           /\ ~ExactHit(Strip(last.row.name)) =>
                  /\ FracLess(last.score, One)
                  /\ <<last.entity[1], PropCsvMatchScore,
                        NumLit(last.score[1], last.score[2], "float")>> \in graph
    /\ pc \in {"csv", "enriched"} => stats.exact_matches = Cardinality(ExactRows)

\* a run with one row matched on an exact key and then one matched by
\* similarity alone, which left its score on the entity
C28_Witness ==
    /\ CsvMatched
    /\ i = 2
    /\ ExactRows = {1}
    /\ stats.exact_matches = 1
    /\ stats.fuzzy_matches = 1
    /\ ~ExactHit(Strip(last.row.name))
    /\ FracLess(last.score, One)
    /\ <<last.entity[1], PropCsvMatchScore,
          NumLit(last.score[1], last.score[2], "float")>> \in graph \ last.before

-----------------------------------------------------------------------------
(* Claims about the repeated CSV run (SpecRerun)                           *)

\* the second call of enrich_with_csv has handled a row
Rerun == pc \in {"csv_again", "enriched_again"} /\ i >= 1

\* C29: CSV enrichment is idempotent.  In a second run over the same rows,
\* on the graph and with the index the first run left, no row changes the
\* graph, and every call of add_csv_character_triples adds 0 to the
\* triples_added counter.
C29_CsvIdempotent ==
    Rerun =>
        /\ graph = last.before
        /\ stats.triples_added = last.stats_before.triples_added

\* the second run merged a row for an entity the first run had enriched with
\* a date, a multi-valued race and a match score, and the graph stayed as it was
C29_Witness ==
    /\ Rerun
    /\ pc = "enriched_again"
    /\ Len(characters) = 2
    /\ last.op = "csv_match"
    /\ \E n \in 1..2 : characters[n].name = <<"S","a","m","m">>
    /\ \E t \in graph : t[2] = PropCsvMatchScore
    /\ \E t \in graph : t[2] = PropRace /\ t[3] = Lit(<<"E","l","f">>, "en")
    /\ stats.triples_added > 3
    /\ graph = last.before

-----------------------------------------------------------------------------
(* Claims about the whole pipeline (SpecPipeline)                          *)

\* C17: the fact graph is append-only: through graph building, card
\* enrichment and CSV enrichment every fact present before an operation is
\* present after it, and an operation that adds only triples already
\* present (a card seen before) leaves the graph unchanged.
C17_AppendOnly ==
    [][/\ graph \subseteq graph'
       /\ (/\ pc = "metw"
           /\ i < Len(cards)
           /\ CardTriples(entity_index, cards[i + 1], MetwThreshold) \subseteq graph) =>
              graph' = graph]_vars

\* the run is over: the graph holds the facts of the build, of a card that
\* was read twice and linked twice, and of a matched CSV row
C17_Witness ==
    /\ pc = "enriched"
    /\ Generate(entities) \subseteq graph
    /\ Len(cards) = 2 /\ cards[1] = CardSam /\ cards[2] = CardSam
    /\ metw_stats.linked_cards = 2
    /\ metw_stats.triples_added = Cardinality(CardTriples(entity_index, CardSam, MetwThreshold))
    /\ metw_stats.triples_added > 0
    /\ last.op = "csv_match"
    /\ <<last.entity[1], SchemaIsBasedOn, CsvProvenance>> \in graph \ Generate(entities)

\* the graph is loaded and the index built: cards and CSV rows are merged
Enriching == pc \in {"loaded", "metw", "metw_done", "csv", "enriched"}

\* C22: matches use the snapshot taken when the graph was loaded.  No step
\* of card or CSV enrichment changes the index, and after a row is merged
\* find_best_match gives for its name the result it gave before the merge.
C22_IndexSnapshot ==
    /\ [][Enriching => entity_index' = entity_index]_vars
    /\ [](CsvMatched =>
             find_best_match(entity_index, Strip(last.row.name), CsvThreshold)
                 = Match(last.entity, last.score))

\* a card was linked through a fuzzy match and a CSV row was merged, and
\* the index still is the one built from the names of the loaded graph
C22_Witness ==
    /\ pc = "enriched"
    /\ CardTommB \in {cards[n] : n \in 1..Len(cards)}
    /\ metw_stats.linked_cards >= 1
    /\ last.op = "csv_match"
    /\ graph # Generate(entities)
    /\ entity_index \in {build_entity_index(rows) : rows \in Orderings(NameRows(Generate(entities)))}
    /\ <<"t","o","m","m"," ","b">> \notin IndexKeys(entity_index)

\* the (entity, card) pairs linked under predicate p
Links(p) == {<<t[1], t[3]>> : t \in {u \in graph : u[2] = p /\ u[3].ns = "METW"}}

\* C25: card linking.  An entity is linked to a card by schema:subjectOf
\* iff it is linked to it by prop:hasCard; a card whose name is empty or
\* matches no entity adds no fact; linked_cards never exceeds total_cards.
C25_CardLinking ==
    Enriching =>
        /\ Links(Uri("SCHEMA", <<"s","u","b","j","e","c","t","O","f">>)) = Links(Uri("PROP", <<"h","a","s","C","a","r","d">>))
        /\ metw_stats.linked_cards <= metw_stats.total_cards
        /\ (/\ last.op = "card"
            /\ \/ Strip(card_name_of(last.card)) = <<>>
               \/ find_best_match(entity_index, card_name_of(last.card), <<17, 20>>).matched
                     = None) =>
               graph = last.before

\* the card enrichment is over: of two cards one matches no entity and adds
\* nothing, the other is linked to Tom B both ways
C25_Witness ==
    /\ pc = "metw_done"
    /\ metw_stats.total_cards = 2
    /\ metw_stats.linked_cards = 1
    /\ cards = <<CardTommB, CardZed>>
    /\ last.card = CardZed /\ graph = last.before
    /\ Links(Uri("PROP", <<"h","a","s","C","a","r","d">>)) =
          {<<create_uri(<<"T","o","m"," ","B">>, "resource"), Uri("METW", <<"T","o","m","m","_","B">>)>>}
    /\ Links(Uri("SCHEMA", <<"s","u","b","j","e","c","t","O","f">>)) = Links(Uri("PROP", <<"h","a","s","C","a","r","d">>))

\* C30: gender facts stay inside the closed value set through the whole
\* pipeline.  From the build to the end of the CSV enrichment, every literal
\* under schema:gender is one of the members of the list create_gender_list
\* emits: "Male", "Female" or "Unknown", without a language tag.
C30_GenderClosedThroughout ==
    \A t \in graph :
        (t[2] = SchemaGender /\ IsLiteral(t[3])) =>
            \E n \in 1..Len(create_gender_list) : t[3] = create_gender_list[n]

-----------------------------------------------------------------------------
(* Claims about the shape generator (SpecShape)                            *)

\* the class tag Step 1 gives a page whose template is 'Infobox character'
CharacterTag ==
    parse_infobox_template(<<TemplateNode(<<"I","n","f","o","b","o","x"," ","c","h","a","r","a","c","t","e","r">>, <<>>)>>)[1].template_type

\* the records of the corpus that carry the class tag and the attribute
Carrying(tag, field) ==
    {n \in 1..Len(entities) :
        /\ entities[n].type = Some(tag)
        /\ entities[n].infobox # None
        /\ \E m \in 1..Len(entities[n].infobox[1].parameters) :
               entities[n].infobox[1].parameters[m].key = field}

ShapeFields == {<<"g","e","n","d","e","r">>, <<"r","a","c","e">>, <<"b","i","r","t","h","P","l","a","c","e">>}

\* C19: the normalizer and the shape generator share one class tag.  A
\* template named 'Infobox character' is tagged "character", and once the
\* shapes are generated the character-shape count of gender, race and
\* birthPlace is the number of records carrying that tag and the attribute.
C19_SharedClassTag ==
    /\ CharacterTag = <<"c","h","a","r","a","c","t","e","r">>
    /\ pc = "shaped" =>
          \A f \in ShapeFields :
              char_props(property_usage, f) = Cardinality(Carrying(CharacterTag, f))

\* C20: thresholds are absolute counts.  The gender, race and birthPlace
\* constraints of the character shape are emitted exactly when the number of
\* character-tagged records carrying the attribute exceeds 100, 100 and 50.
C20_AbsoluteThresholds ==
    pc = "shaped" =>
        /\ GenderConstraint \in shape_graph.properties
               <=> Cardinality(Carrying(CharacterTag, <<"g","e","n","d","e","r">>)) > GenderCutoff
        /\ RaceConstraint \in shape_graph.properties
               <=> Cardinality(Carrying(CharacterTag, <<"r","a","c","e">>)) > RaceCutoff
        /\ BirthPlaceConstraint \in shape_graph.properties
               <=> Cardinality(Carrying(CharacterTag, <<"b","i","r","t","h","P","l","a","c","e">>)) > BirthPlaceCutoff

====
